---------------------------- MODULE Spec2Model ----------------------------
(***************************************************************************)
(* A model of the settlement engine of HTLCProductsSim.py: currency pairs, *)
(* prices, asset bags, accounts, oracle hashes, hash tranches and          *)
(* contracts.                                                              *)
(*                                                                         *)
(* Python's floats are modelled by exact arithmetic: a rate is a positive  *)
(* rational [n, d] compared by cross multiplication, an amount an integer. *)
(* A raised ValueError is the string "ValueError" in place of a result.    *)
(***************************************************************************)
EXTENDS Integers, Sequences, FiniteSets, TLC

(***************************************************************************)
(* Bounds of the model.                                                    *)
(***************************************************************************)
MaxRate == 3        \* numerators and denominators of the rates compared
MaxTranches == 2    \* tranches of a contract
MaxPrices == 2      \* length of the caller's list of observed prices
MaxCalls == 2       \* conclude and disburse calls between two resets
MaxStudy == 2       \* length of the price range given to doStudy
MaxReceives == 3    \* receive calls on an account between two empty calls
MaxAmount == 2      \* amount of a bag handed to receive
MaxSteps == 2       \* steps of a decade of a hash table
MaxDecades == 2     \* decades of a hash table
MaxObs == 4         \* numerator of the price observed for a hash table
MaxLeaves == 4      \* length of a list handed to SimpleMerkleRoot
MaxUpside == 4      \* upside multiple handed to Face
MaxTenths == 10     \* tenths above 1 of the tolerance handed to Face
MaxIdx == 63        \* index handed to staggerRatioPair
MaxPlane == 7       \* plane of a LogPrices object
MaxDrift == 2       \* rounding of a float: 0 none, 1 within 1e-12, above 1 beyond

(***************************************************************************)
(* class Pair                                                              *)
(***************************************************************************)
Symbols == {"USD", "BTS", "CNY"}

Pair(b, q) == [base |-> b, quote |-> q]

Pair_swap(self) == Pair(self.quote, self.base)

Pair_compat(self, other) ==
    IF self.base = other.base /\ self.quote = other.quote THEN TRUE
    ELSE IF self.base = other.quote /\ self.quote = other.base THEN TRUE
    ELSE FALSE

\* A plausible slip: an orientation-blind test where the exact one is meant.
Pair_same_asCompat(self, other) == Pair_compat(self, other)

Pair_same(self, other) ==
    IF self.base = other.base /\ self.quote = other.quote THEN TRUE
    ELSE FALSE

(***************************************************************************)
(* Rates: the float of a Price, as an exact positive rational.             *)
(***************************************************************************)
Rate(n, d) == [n |-> n, d |-> d]

RateGT(a, b) == a.n * b.d > b.n * a.d

RateEQ(a, b) == a.n * b.d = b.n * a.d

\* 1 / rate
RateInv(a) == IF a.n < 0 THEN Rate(0 - a.d, 0 - a.n) ELSE Rate(a.d, a.n)

(***************************************************************************)
(* class Price                                                             *)
(***************************************************************************)
Price(rate, pair) == [price |-> rate, pair |-> pair]

\* A flip that swaps the pair and forgets the reciprocal.
Price_flip_noRecip(self) == Price(self.price, Pair_swap(self.pair))

Price_flip(self) == Price(RateInv(self.price), Pair_swap(self.pair))

PyBool(b) == IF b THEN "True" ELSE "False"

\* Python's `not x`, with a raised exception propagating through it.
PyNot(x) == IF x = "ValueError" THEN "ValueError"
            ELSE IF x = "True" THEN "False" ELSE "True"

Price_gt(self, other) ==
    IF ~Pair_same(self.pair, other.pair) THEN "ValueError"
    ELSE PyBool(RateGT(self.price, other.price))

Price_lt(self, other) == Price_gt(other, self)

\* >= taken for > (the negation dropped together with the swap).
Price_ge_strict(self, other) == Price_gt(self, other)

Price_ge(self, other) == PyNot(Price_gt(other, self))

Price_le(self, other) == PyNot(Price_gt(self, other))

(***************************************************************************)
(* class OracleHash                                                        *)
(***************************************************************************)
OracleHash(threshprice, strict, exceeds) ==
    [threshprice |-> threshprice, strict |-> strict, exceeds |-> exceeds]

GT(threshprice) == OracleHash(threshprice, TRUE, TRUE)
GE(threshprice) == OracleHash(threshprice, FALSE, TRUE)
LT(threshprice) == OracleHash(threshprice, TRUE, FALSE)
LE(threshprice) == OracleHash(threshprice, FALSE, FALSE)

isRevealed(self, obsprice) ==
    LET obs == IF ~Pair_same(obsprice.pair, self.threshprice.pair)
                 THEN Price_flip(obsprice)
                 ELSE obsprice
    IN  IF self.exceeds
          THEN IF self.strict THEN Price_gt(obs, self.threshprice)
                              ELSE Price_ge(obs, self.threshprice)
          ELSE IF self.strict THEN Price_lt(obs, self.threshprice)
                              ELSE Price_le(obs, self.threshprice)

priceCompatible(self, price) == Pair_compat(price.pair, self.threshprice.pair)


(***************************************************************************)
(* The object heap.  Python's AssetBag and Account objects are mutable and *)
(* shared by reference, so they live in a store h:                         *)
(*   h.bag : bag reference     -> [amount, symbol]                         *)
(*   h.acc : account reference -> [bags, StudyResults]                     *)
(* where bags is the list of bag references of the Account and             *)
(* StudyResults the list of account references doStudy attaches to it.     *)
(* References are 1, 2, ...: h.bag and h.acc are sequences, and a new      *)
(* object is appended.                                                     *)
(* An operation that can raise returns [h, err]: the store as the          *)
(* exception leaves it, and "none" or "ValueError".                        *)
(***************************************************************************)
Min(S) == CHOOSE x \in S : \A y \in S : x <= y

Ok(h) == [h |-> h, err |-> "none"]
Raise(h) == [h |-> h, err |-> "ValueError"]

(***************************************************************************)
(* class AssetBag                                                          *)
(***************************************************************************)
AssetBag(amount, symbol) == [amount |-> amount, symbol |-> symbol]

AssetBag_compatible(h, self, other) == h.bag[self].symbol = h.bag[other].symbol

AssetBag_absorb(h, self, other) ==
    IF h.bag[self].symbol = h.bag[other].symbol
      THEN Ok([h EXCEPT !.bag[self].amount = @ + h.bag[other].amount])
      ELSE Raise(h)

\* clone() allocates a new object: the store with it, and its reference.
AssetBag_clone(h, self) ==
    [h |-> [h EXCEPT !.bag = Append(@, AssetBag(h.bag[self].amount, h.bag[self].symbol))],
     ref |-> Len(h.bag) + 1]

(***************************************************************************)
(* class Account                                                           *)
(***************************************************************************)
NewAccount(h) ==
    [h |-> [h EXCEPT !.acc = Append(@, [bags |-> << >>, StudyResults |-> << >>])],
     ref |-> Len(h.acc) + 1]

\* The received bag itself is stored, not a clone of it.
Account_receive_noClone(h, self, rbag) ==
    LET bs == h.acc[self].bags
        hit == {i \in DOMAIN bs : AssetBag_compatible(h, bs[i], rbag)}
    IN  IF hit # {}
          THEN AssetBag_absorb(h, bs[Min(hit)], rbag).h
          ELSE [h EXCEPT !.acc[self].bags = Append(@, rbag)]

\* A received bag is always appended, never merged.
Account_receive_noMerge(h, self, rbag) ==
    LET c == AssetBag_clone(h, rbag)
    IN  [c.h EXCEPT !.acc[self].bags = Append(@, c.ref)]

\* The merge overwrites the held amount instead of adding to it.
Account_receive_overwrite(h, self, rbag) ==
    LET bs == h.acc[self].bags
        hit == {i \in DOMAIN bs : AssetBag_compatible(h, bs[i], rbag)}
    IN  IF hit # {}
          THEN [h EXCEPT !.bag[bs[Min(hit)]].amount = h.bag[rbag].amount]
          ELSE LET c == AssetBag_clone(h, rbag)
               IN  [c.h EXCEPT !.acc[self].bags = Append(@, c.ref)]

\* for bag in self.bags: the first compatible bag absorbs and the loop
\* breaks; the else branch of the loop appends a clone.
Account_receive(h, self, rbag) ==
    LET bs == h.acc[self].bags
        hit == {i \in DOMAIN bs : AssetBag_compatible(h, bs[i], rbag)}
    IN  IF hit # {}
          THEN AssetBag_absorb(h, bs[Min(hit)], rbag).h
          ELSE LET c == AssetBag_clone(h, rbag)
               IN  [c.h EXCEPT !.acc[self].bags = Append(@, c.ref)]

Account_empty(h, self) == [h EXCEPT !.acc[self].bags = << >>]

RECURSIVE CopyBags(_, _, _)
CopyBags(h, retval, bs) ==
    IF bs = << >> THEN h
    ELSE LET c == AssetBag_clone(h, Head(bs))
         IN  CopyBags(Account_receive(c.h, retval, c.ref), retval, Tail(bs))

\* The "copy" is the account itself.
Account_copy_alias(h, self) == [h |-> h, ref |-> self]

\* A fresh Account (no StudyResults) that receives a clone of every bag.
Account_copy(h, self) ==
    LET a == NewAccount(h)
    IN  [h |-> CopyBags(a.h, a.ref, h.acc[self].bags), ref |-> a.ref]


(***************************************************************************)
(* class HashTranche: [ohash, asset, taccount, haccount], asset a bag      *)
(* reference and the two accounts account references.                      *)
(***************************************************************************)
HashTranche(ohash, asset, taccount, haccount) ==
    [ohash |-> ohash, asset |-> asset, taccount |-> taccount, haccount |-> haccount]

Deliver(h, self, price) ==
    LET r == isRevealed(self.ohash, price)
    IN  IF r = "ValueError" THEN Raise(h)
        ELSE IF r = "True" THEN Ok(Account_receive(h, self.haccount, self.asset))
        ELSE Ok(Account_receive(h, self.taccount, self.asset))

\* The last compatible price of the list decides, not the first.
RECURSIVE HashTranche_disburse_last(_, _, _)
HashTranche_disburse_last(h, self, knownprices) ==
    IF knownprices = << >> THEN Raise(h)
    ELSE LET n == Len(knownprices)
         IN  IF priceCompatible(self.ohash, knownprices[n])
               THEN Deliver(h, self, knownprices[n])
               ELSE HashTranche_disburse_last(h, self, SubSeq(knownprices, 1, n - 1))

\* for price in knownprices: the first compatible price decides and the
\* method returns; the else branch of the loop raises.
RECURSIVE HashTranche_disburse(_, _, _)
HashTranche_disburse(h, self, knownprices) ==
    IF knownprices = << >> THEN Raise(h)
    ELSE IF priceCompatible(self.ohash, Head(knownprices))
           THEN Deliver(h, self, Head(knownprices))
           ELSE HashTranche_disburse(h, self, Tail(knownprices))

(***************************************************************************)
(* class Contract: self is [tranches, accounts].  conclude and doStudy     *)
(* return, with the store and the error, the index of the tranche (of the  *)
(* driving price) at which an exception was raised, 0 if none.             *)
(***************************************************************************)
RECURSIVE EmptyAll(_, _)
EmptyAll(h, accs) ==
    IF accs = << >> THEN h
    ELSE EmptyAll(Account_empty(h, Head(accs)), Tail(accs))

\* reset that empties nothing.
Contract_reset_skip(h, self) == h

Contract_reset(h, self) == EmptyAll(h, self.accounts)

RECURSIVE DisburseFrom(_, _, _, _)
DisburseFrom(h, ts, k, finalprices) ==
    IF k > Len(ts) THEN [h |-> h, err |-> "none", at |-> 0]
    ELSE LET r == HashTranche_disburse(h, ts[k], finalprices)
         IN  IF r.err # "none" THEN [h |-> r.h, err |-> r.err, at |-> k]
             ELSE DisburseFrom(r.h, ts, k + 1, finalprices)

\* A failing tranche is skipped and the remaining ones are still disbursed.
RECURSIVE DisburseSkipping(_, _, _, _, _)
DisburseSkipping(h, ts, k, finalprices, failed) ==
    IF k > Len(ts)
      THEN [h |-> h, err |-> IF failed = 0 THEN "none" ELSE "ValueError", at |-> failed]
    ELSE LET r == HashTranche_disburse(h, ts[k], finalprices)
         IN  DisburseSkipping(r.h, ts, k + 1, finalprices,
                              IF r.err # "none" /\ failed = 0 THEN k ELSE failed)

Contract_conclude_skipping(h, self, finalprices) ==
    DisburseSkipping(h, self.tranches, 1, finalprices, 0)

Contract_conclude(h, self, finalprices) ==
    DisburseFrom(h, self.tranches, 1, finalprices)

RECURSIVE ClearStudy(_, _)
ClearStudy(h, accs) ==
    IF accs = << >> THEN h
    ELSE ClearStudy([h EXCEPT !.acc[Head(accs)].StudyResults = << >>], Tail(accs))

RECURSIVE Snapshot(_, _)
Snapshot(h, accs) ==
    IF accs = << >> THEN h
    ELSE LET c == Account_copy(h, Head(accs))
         IN  Snapshot([c.h EXCEPT !.acc[Head(accs)].StudyResults = Append(@, c.ref)],
                      Tail(accs))

RECURSIVE StudyFrom(_, _, _, _, _)
StudyFrom(h, self, j, varprices, fixedprices) ==
    IF j > Len(varprices) THEN [h |-> h, err |-> "none", at |-> 0]
    ELSE LET r == Contract_conclude(Contract_reset(h, self), self,
                                    <<varprices[j]>> \o fixedprices)
         IN  IF r.err # "none" THEN [h |-> r.h, err |-> r.err, at |-> j]
             ELSE StudyFrom(Snapshot(r.h, self.accounts), self, j + 1,
                            varprices, fixedprices)

Contract_doStudy(h, self, varprices, fixedprices) ==
    StudyFrom(ClearStudy(h, self.accounts), self, 1, varprices, fixedprices)

(***************************************************************************)
(* Object references are not observable: after every operation the store   *)
(* keeps the objects still reachable from the contract and numbers them in *)
(* the order in which the contract reaches them (tranche assets, accounts, *)
(* their bags, their study results).                                       *)
(***************************************************************************)
RECURSIVE Dedupe(_)
Dedupe(s) ==
    IF s = << >> THEN s
    ELSE LET d == Dedupe(SubSeq(s, 1, Len(s) - 1))
         IN  IF \E i \in DOMAIN d : d[i] = s[Len(s)] THEN d ELSE Append(d, s[Len(s)])

RECURSIVE Flatten(_)
Flatten(ss) == IF ss = << >> THEN << >> ELSE Head(ss) \o Flatten(Tail(ss))

PosIn(s, x) == CHOOSE i \in DOMAIN s : s[i] = x

Normalize(h, self) ==
    LET accOrder == Dedupe(self.accounts \o
                           Flatten([i \in DOMAIN self.accounts |->
                                      h.acc[self.accounts[i]].StudyResults]))
        bagOrder == Dedupe([k \in DOMAIN self.tranches |-> self.tranches[k].asset] \o
                           Flatten([i \in DOMAIN accOrder |-> h.acc[accOrder[i]].bags]))
    IN  [bag |-> [b \in DOMAIN bagOrder |-> h.bag[bagOrder[b]]],
         acc |-> [a \in DOMAIN accOrder |->
                    [bags |-> [i \in DOMAIN h.acc[accOrder[a]].bags |->
                                 PosIn(bagOrder, h.acc[accOrder[a]].bags[i])],
                     StudyResults |-> [i \in DOMAIN h.acc[accOrder[a]].StudyResults |->
                                 PosIn(accOrder, h.acc[accOrder[a]].StudyResults[i])]]]]


(***************************************************************************)
(* State.                                                                  *)
(***************************************************************************)
VARIABLES
    bags,            \* the AssetBag objects: reference -> [amount, symbol]
    accts,           \* the Account objects: reference -> [bags, StudyResults]
    tranches,        \* Contract.tranches
    accounts,        \* Contract.accounts: account references
    pricelistcache,  \* Contract.pricelistcache
    StudyX,          \* Contract.StudyX, << >> while unset
    StudyPriceEnv,   \* Contract.StudyPriceEnv, << >> while unset
    knownprices,     \* the caller's observed prices: the list given to conclude
                     \* and disburse, the fixed prices given to doStudy
    last,            \* the last call made on the contract and how it ended
    nCalls,          \* conclude and disburse calls since the last reset
    uniform,         \* those calls were all successful conclude(pricelistcache)
    studyValid,      \* a doStudy has completed, and none has failed since
    received,        \* per symbol: number and sum of the bags received by the
                     \* account since its last empty
    obsprice,        \* a Price handed to a comparison or to isRevealed
    ohash,           \* an OracleHash; its threshprice is the other Price
    call,            \* the comparison or isRevealed call made, and its result
    cfg,             \* the arguments a HashTable is built from, but the secret
    HT,              \* the HashTable objects built, "None" where there is none
    madeWith,        \* per HashTable: the secret it was built from
    fingermid,       \* per secret: the digest its fingerprint is folded from
    reply,           \* the last call made on a HashTable and its result
    leaves,          \* a list of leaf hashes handed to SimpleMerkleRoot
    merkle,          \* the call made on SimpleMerkleRoot and its result
    face,            \* the arguments and locals of BoundedStableCoin.Face
    LP,              \* a LogPrices object, and how its floats are rounded
    asked            \* the last call made on LP or on _LogSpacer and its result

contractVars == <<tranches, accounts, pricelistcache, StudyX, StudyPriceEnv>>
priceVars == <<obsprice, ohash, call>>
tableVars == <<cfg, HT, madeWith, fingermid, reply>>
spacerVars == <<LP, asked>>
ladderVars == <<tableVars, leaves, merkle, face, spacerVars>>
vars == <<bags, accts, tranches, accounts, pricelistcache, StudyX, StudyPriceEnv,
          knownprices, last, nCalls, uniform, studyValid, received,
          obsprice, ohash, call, cfg, HT, madeWith, fingermid, reply, leaves, merkle,
          face, LP, asked>>

Store == [bag |-> bags, acc |-> accts]
Self == [tranches |-> tranches, accounts |-> accounts]

(***************************************************************************)
(* Inputs.                                                                 *)
(***************************************************************************)
USDBTS == Pair("USD", "BTS")
BTSUSD == Pair("BTS", "USD")
CNYBTS == Pair("CNY", "BTS")
USDCNY == Pair("USD", "CNY")

SeqsUpTo(S, n) == UNION {[1..m -> S] : m \in 0..n}

\* The tranches a contract is built from: two conditions on USD:BTS that
\* differ at the threshold and one on another pair, two assets, both routings.
TrancheSpecs ==
    {[ohash |-> GE(Price(Rate(2, 1), USDBTS)), asset |-> AssetBag(1, "BTS"), route |-> <<1, 2>>],
     [ohash |-> GT(Price(Rate(2, 1), USDBTS)), asset |-> AssetBag(2, "USD"), route |-> <<2, 1>>],
     [ohash |-> LE(Price(Rate(2, 1), CNYBTS)), asset |-> AssetBag(1, "BTS"), route |-> <<1, 2>>]}

\* Observed prices: below the USD:BTS threshold, on it in the inverted
\* orientation, and one of the other pair.
FinalPrices == {Price(Rate(1, 1), USDBTS), Price(Rate(1, 2), BTSUSD),
                Price(Rate(1, 1), CNYBTS)}
StudyPrices == {Price(Rate(1, 1), USDBTS), Price(Rate(1, 2), BTSUSD)}
PriceLists == SeqsUpTo(FinalPrices, MaxPrices)

NAccounts == 2

NoCall == [op |-> "none", k |-> 0, err |-> "none", at |-> 0]

NoPrice == Price(Rate(1, 1), USDBTS)
NoProbe == [op |-> "none", result |-> "none"]
NoReceived == [s \in Symbols |-> [n |-> 0, sum |-> 0]]

\* A contract as its constructor leaves it: addNAccounts(NAccounts), then
\* one addTranche per element of specs, each with an AssetBag of its own.
BuiltContract(specs) ==
    /\ bags = [k \in DOMAIN specs |-> specs[k].asset]
    /\ accts = [a \in 1..NAccounts |-> [bags |-> << >>, StudyResults |-> << >>]]
    /\ accounts = [a \in 1..NAccounts |-> a]
    /\ tranches = [k \in DOMAIN specs |->
                     HashTranche(specs[k].ohash, k, specs[k].route[1], specs[k].route[2])]
    /\ pricelistcache = << >>
    /\ StudyX = << >>
    /\ StudyPriceEnv = << >>

PriceIdle == obsprice = NoPrice /\ ohash = GE(NoPrice) /\ call = NoProbe
GhostIdle == last = NoCall /\ nCalls = 0 /\ uniform = TRUE /\ studyValid = FALSE
TableIdle == cfg = [err |-> "None"] /\ HT = << >> /\ madeWith = << >> /\ fingermid = << >>
             /\ reply = [err |-> "None"]
MerkleIdle == leaves = << >> /\ merkle = [err |-> "None"]
FaceIdle == face = [err |-> "None"]
SpacerIdle == LP = [err |-> "None"] /\ asked = [err |-> "None"]
LadderIdle == TableIdle /\ MerkleIdle /\ FaceIdle /\ SpacerIdle

(***************************************************************************)
(* The contract: reset, conclude, doStudy, and a tranche's disburse.       *)
(***************************************************************************)
Init ==
    /\ \E specs \in SeqsUpTo(TrancheSpecs, MaxTranches) : BuiltContract(specs)
    /\ knownprices \in PriceLists
    /\ GhostIdle
    /\ received = NoReceived
    /\ PriceIdle
    /\ LadderIdle

SetStore(h) ==
    \E n \in {Normalize(h, Self)} : bags' = n.bag /\ accts' = n.acc

Reset ==
    /\ SetStore(Contract_reset(Store, Self))
    /\ last' = [NoCall EXCEPT !.op = "reset"]
    /\ nCalls' = 0
    /\ uniform' = TRUE
    /\ UNCHANGED <<contractVars, knownprices, studyValid, received, priceVars, ladderVars>>

Conclude(finalprices) ==
    /\ nCalls < MaxCalls
    /\ \E r \in {Contract_conclude(Store, Self, finalprices)} :
           /\ SetStore(r.h)
           /\ last' = [NoCall EXCEPT !.op = "conclude", !.err = r.err, !.at = r.at]
           /\ uniform' = (r.err = "none" /\
                          (nCalls = 0 \/ (uniform /\ pricelistcache = finalprices)))
    /\ pricelistcache' = finalprices
    /\ nCalls' = nCalls + 1
    /\ UNCHANGED <<tranches, accounts, StudyX, StudyPriceEnv, knownprices,
                   studyValid, received, priceVars, ladderVars>>

Disburse(k, prices) ==
    /\ nCalls < MaxCalls
    /\ \E r \in {HashTranche_disburse(Store, tranches[k], prices)} :
           /\ SetStore(r.h)
           /\ last' = [NoCall EXCEPT !.op = "disburse", !.k = k, !.err = r.err]
    /\ nCalls' = nCalls + 1
    /\ uniform' = FALSE
    /\ UNCHANGED <<contractVars, knownprices, studyValid, received, priceVars, ladderVars>>

DoStudy(varprices, fixedprices) ==
    \E r \in {Contract_doStudy(Store, Self, varprices, fixedprices)} :
        /\ SetStore(r.h)
        /\ last' = [NoCall EXCEPT !.op = "doStudy", !.err = r.err, !.at = r.at]
        /\ studyValid' = (r.err = "none")
        /\ IF r.err = "none"
             THEN StudyX' = varprices /\ StudyPriceEnv' = fixedprices
             ELSE UNCHANGED <<StudyX, StudyPriceEnv>>
        /\ IF varprices = << >>
             THEN UNCHANGED <<pricelistcache, nCalls, uniform>>
             ELSE /\ pricelistcache' =
                       <<varprices[IF r.err = "none" THEN Len(varprices) ELSE r.at]>>
                       \o fixedprices
                  /\ nCalls' = 1
                  /\ uniform' = (r.err = "none")
        /\ UNCHANGED <<tranches, accounts, knownprices, received, priceVars, ladderVars>>

\* Settlement alone: the contract is reset and concluded, its tranches
\* disbursed, against the caller's list of observed prices.
NextSettle ==
    \/ Reset
    \/ Conclude(knownprices)
    \/ \E k \in DOMAIN tranches : Disburse(k, knownprices)

SpecSettle == Init /\ [][NextSettle]_vars

\* Settlement and studies: doStudy drives a price range in front of the
\* caller's list.
Next ==
    \/ NextSettle
    \/ \E v \in SeqsUpTo(StudyPrices, MaxStudy) : DoStudy(v, knownprices)

Spec == Init /\ [][Next]_vars

(***************************************************************************)
(* What the claims speak of, stated without the operations above.          *)
(***************************************************************************)
RECURSIVE SumOver(_, _)
SumOver(f, S) ==
    IF S = {} THEN 0
    ELSE LET x == CHOOSE y \in S : TRUE IN f[x] + SumOver(f, S \ {x})

\* What account a holds of symbol sym in the store [bag |-> bs, acc |-> as].
HoldingsIn(bs, as, a, sym) ==
    SumOver([i \in DOMAIN as[a].bags |->
               IF bs[as[a].bags[i]].symbol = sym THEN bs[as[a].bags[i]].amount ELSE 0],
            DOMAIN as[a].bags)

Holdings(a, sym) == HoldingsIn(bags, accts, a, sym)

\* The pair of price is the pair of the condition, in either orientation.
Usable(oh, price) ==
    {price.pair.base, price.pair.quote} =
        {oh.threshprice.pair.base, oh.threshprice.pair.quote}

\* Index of the first price of the list usable by the condition, 0 if none.
FirstUsable(oh, prices) ==
    LET I == {i \in DOMAIN prices : Usable(oh, prices[i])}
    IN  IF I = {} THEN 0 ELSE Min(I)

\* The condition's comparison holds of the rate n/d against the threshold.
Holds(oh, n, d) ==
    LET tn == oh.threshprice.price.n
        td == oh.threshprice.price.d
    IN  IF oh.exceeds
          THEN IF oh.strict THEN n * td > tn * d ELSE n * td >= tn * d
          ELSE IF oh.strict THEN n * td < tn * d ELSE n * td <= tn * d

\* The condition opens at a usable price: the price is read in the
\* orientation of the threshold, by its reciprocal when it is inverted.
Opens(oh, price) ==
    IF price.pair = oh.threshprice.pair
      THEN Holds(oh, price.price.n, price.price.d)
      ELSE Holds(oh, price.price.d, price.price.n)

\* The account tranche t pays into under the price list.
Destination(t, prices) ==
    IF Opens(t.ohash, prices[FirstUsable(t.ohash, prices)]) THEN t.haccount
    ELSE t.taccount

\* What the tranches 1..n pay to account a in symbol sym under the price
\* list (a tranche with no usable price pays nothing).
Paid(n, prices, a, sym) ==
    SumOver([k \in 1..n |->
               IF /\ bags[tranches[k].asset].symbol = sym
                  /\ FirstUsable(tranches[k].ohash, prices) # 0
                  /\ Destination(tranches[k], prices) = a
                 THEN bags[tranches[k].asset].amount ELSE 0],
            1..n)

Stuck(prices) == {k \in DOMAIN tranches : FirstUsable(tranches[k].ohash, prices) = 0}

AccountRefs == {accounts[i] : i \in DOMAIN accounts}

(***************************************************************************)
(* C1: one conclude from empty accounts, with a usable price for every     *)
(* tranche, succeeds and leaves in the accounts, symbol by symbol, exactly *)
(* the sum of the amounts of the tranches.                                 *)
(***************************************************************************)
FreshConclude == last.op = "conclude" /\ nCalls = 1

ConcludeConservesValue ==
    (FreshConclude /\ Stuck(pricelistcache) = {}) =>
        /\ last.err = "none"
        /\ \A sym \in Symbols :
              SumOver([a \in AccountRefs |-> Holdings(a, sym)], AccountRefs) =
              SumOver([k \in DOMAIN tranches |->
                         IF bags[tranches[k].asset].symbol = sym
                           THEN bags[tranches[k].asset].amount ELSE 0],
                      DOMAIN tranches)

\* Two tranches of one symbol have been settled into one account.
ConcludeConservesValue_witness ==
    /\ FreshConclude /\ Stuck(pricelistcache) = {}
    /\ Len(tranches) = 2
    /\ \E a \in AccountRefs : Holdings(a, "BTS") = 2

(***************************************************************************)
(* C2: a successful disburse pays the tranche's full amount to the account *)
(* chosen by the first usable price of the list - the hash account if the  *)
(* condition opens there, else the timeout account - and changes no other  *)
(* holding.                                                                *)
(***************************************************************************)
DisburseByFirstUsablePrice ==
    [][(last'.op = "disburse" /\ FirstUsable(tranches[last'.k].ohash, knownprices) # 0) =>
          /\ last'.err = "none"
          /\ \A a \in AccountRefs, sym \in Symbols :
                HoldingsIn(bags', accts', a, sym) =
                    Holdings(a, sym) +
                    (IF /\ a = Destination(tranches[last'.k], knownprices)
                        /\ sym = bags[tranches[last'.k].asset].symbol
                       THEN bags[tranches[last'.k].asset].amount ELSE 0)]_vars

\* The list held two usable prices, and the condition opens at the second only.
DisburseByFirstUsablePrice_witness ==
    /\ last.op = "disburse" /\ last.err = "none"
    /\ Len(knownprices) = 2
    /\ Usable(tranches[last.k].ohash, knownprices[1])
    /\ Usable(tranches[last.k].ohash, knownprices[2])
    /\ ~Opens(tranches[last.k].ohash, knownprices[1])
    /\ Opens(tranches[last.k].ohash, knownprices[2])
    /\ Holdings(tranches[last.k].taccount, bags[tranches[last.k].asset].symbol) > 0

(***************************************************************************)
(* C3: while only successful conclude(p) calls have been made since the    *)
(* last reset (or construction), every account holds c times what one      *)
(* conclude(p) pays it, c the number of those calls.                       *)
(***************************************************************************)
ConcludeAccumulates ==
    uniform =>
        \A a \in AccountRefs, sym \in Symbols :
            Holdings(a, sym) = nCalls * Paid(Len(tranches), pricelistcache, a, sym)

ConcludeAccumulates_witness ==
    /\ uniform /\ nCalls = 2 /\ last.op = "conclude"
    /\ \E a \in AccountRefs : Holdings(a, "USD") = 4

(***************************************************************************)
(* C4: no step changes a tranche: its condition, its account references    *)
(* and the amount and symbol of its own AssetBag stay as they are.         *)
(***************************************************************************)
TrancheIsReadOnly ==
    [][/\ tranches' = tranches
       /\ \A k \in DOMAIN tranches :
             bags'[tranches'[k].asset] = bags[tranches[k].asset]]_vars

\* An account has merged two deliveries of a tranche into one bag.
TrancheIsReadOnly_witness ==
    /\ nCalls = 2
    /\ \E k \in DOMAIN tranches, a \in AccountRefs : \E i \in DOMAIN accts[a].bags :
          /\ bags[accts[a].bags[i]].symbol = bags[tranches[k].asset].symbol
          /\ bags[accts[a].bags[i]].amount = 2 * bags[tranches[k].asset].amount

(***************************************************************************)
(* C5: conclude fails exactly when some tranche has no usable price; it    *)
(* fails at the first such tranche k, and the accounts then hold what they *)
(* held plus the payments of the tranches before k, and no more.           *)
(***************************************************************************)
ConcludeStopsAtFirstFailure ==
    [][(last'.op = "conclude" /\ Stuck(knownprices) # {}) =>
          /\ last'.err = "ValueError"
          /\ last'.at = Min(Stuck(knownprices))
          /\ \A a \in AccountRefs, sym \in Symbols :
                HoldingsIn(bags', accts', a, sym) =
                    Holdings(a, sym) + Paid(Min(Stuck(knownprices)) - 1, knownprices, a, sym)]_vars

\* conclude failed at the second tranche after paying the first.
ConcludeStopsAtFirstFailure_witness ==
    /\ FreshConclude /\ last.err = "ValueError" /\ last.at = 2
    /\ \E a \in AccountRefs, sym \in Symbols : Holdings(a, sym) > 0

(***************************************************************************)
(* C9: after a doStudy every account carries one snapshot per driving      *)
(* price, in order; snapshot j holds what reset and                        *)
(* conclude([varprices[j]] + fixedprices) leave in the account, and is an  *)
(* object of its own that later calls do not change.                       *)
(***************************************************************************)
StudySnapshots ==
    studyValid =>
        \A a \in AccountRefs :
            /\ Len(accts[a].StudyResults) = Len(StudyX)
            /\ \A j \in DOMAIN accts[a].StudyResults :
                  /\ accts[a].StudyResults[j] \notin AccountRefs
                  /\ \A sym \in Symbols :
                        Holdings(accts[a].StudyResults[j], sym) =
                            Paid(Len(tranches), <<StudyX[j]>> \o StudyPriceEnv, a, sym)

\* Two snapshots that differ, and a conclude made after the study.
StudySnapshots_witness ==
    /\ studyValid /\ Len(StudyX) = 2 /\ last.op = "conclude" /\ nCalls = 2
    /\ \E a \in AccountRefs, sym \in Symbols :
          /\ Holdings(accts[a].StudyResults[1], sym) # Holdings(accts[a].StudyResults[2], sym)
          /\ Holdings(a, sym) > Holdings(accts[a].StudyResults[2], sym)

(***************************************************************************)
(* Prices and oracle hashes on their own: a caller compares obsprice with  *)
(* the threshold of ohash, or asks ohash whether obsprice reveals it.      *)
(***************************************************************************)
Rates == {Rate(n, d) : n \in 1..MaxRate, d \in 1..MaxRate}

\* Observed prices in the orientation of the thresholds, inverted, and of a
\* pair that shares one symbol only.
ObsPrices == {Price(r, pr) : r \in Rates, pr \in {USDBTS, BTSUSD, USDCNY}}

Oracles == {OracleHash(Price(r, USDBTS), s, e) : r \in Rates, s \in BOOLEAN, e \in BOOLEAN}

InitPrice ==
    /\ BuiltContract(<< >>)
    /\ knownprices = << >>
    /\ GhostIdle
    /\ received = NoReceived
    /\ obsprice \in ObsPrices
    /\ ohash \in Oracles
    /\ call = NoProbe
    /\ LadderIdle

Answer(op, result) ==
    /\ call' = [op |-> op, result |-> result]
    /\ UNCHANGED <<bags, accts, contractVars, knownprices, last, nCalls, uniform,
                   studyValid, received, obsprice, ohash, ladderVars>>

CallGt == Answer("gt", Price_gt(obsprice, ohash.threshprice))
CallLt == Answer("lt", Price_lt(obsprice, ohash.threshprice))
CallGe == Answer("ge", Price_ge(obsprice, ohash.threshprice))
CallLe == Answer("le", Price_le(obsprice, ohash.threshprice))
CallIsRevealed == Answer("isRevealed", isRevealed(ohash, obsprice))

NextPrice == CallGt \/ CallLt \/ CallGe \/ CallLe \/ CallIsRevealed

SpecPrice == InitPrice /\ [][NextPrice]_vars

Comparisons == {"gt", "lt", "ge", "le"}

\* obsprice <op> threshold, both read as numbers.
Compares(op) ==
    LET l == obsprice.price.n * ohash.threshprice.price.d
        r == ohash.threshprice.price.n * obsprice.price.d
    IN  CASE op = "gt" -> l > r
          [] op = "lt" -> l < r
          [] op = "ge" -> l >= r
          [] op = "le" -> l <= r

(***************************************************************************)
(* C6: for an observed price in the orientation of the threshold,          *)
(* isRevealed is the comparison the condition names: GT is >, GE is >=,    *)
(* LT is <, LE is <=.                                                      *)
(***************************************************************************)
RevealIsTheComparison ==
    (call.op = "isRevealed" /\ obsprice.pair = ohash.threshprice.pair) =>
        call.result = PyBool(Holds(ohash, obsprice.price.n, obsprice.price.d))

\* A GE condition asked at its threshold: revealed.
RevealIsTheComparison_witness ==
    /\ call.op = "isRevealed" /\ obsprice.pair = ohash.threshprice.pair
    /\ RateEQ(obsprice.price, ohash.threshprice.price)
    /\ ohash.exceeds /\ ~ohash.strict
    /\ call.result = "True"

(***************************************************************************)
(* C7: for an observed price of the inverted pair, isRevealed answers as   *)
(* for the reciprocal rate in the orientation of the threshold; for an     *)
(* observed price of any other pair it raises.                             *)
(***************************************************************************)
RevealToleratesInversion ==
    call.op = "isRevealed" =>
        /\ obsprice.pair = Pair_swap(ohash.threshprice.pair) =>
              call.result = PyBool(Holds(ohash, obsprice.price.d, obsprice.price.n))
        /\ ~Usable(ohash, obsprice) => call.result = "ValueError"

\* An inverted price that reveals, where its rate read unflipped would not.
RevealToleratesInversion_witness ==
    /\ call.op = "isRevealed"
    /\ obsprice.pair = Pair_swap(ohash.threshprice.pair)
    /\ call.result = "True"
    /\ ~Holds(ohash, obsprice.price.n, obsprice.price.d)

(***************************************************************************)
(* C8, as claimed: a comparison of two prices raises exactly when their    *)
(* pairs are incompatible, and accepts an inverted pair.                   *)
(***************************************************************************)
ComparisonAcceptsInversion ==
    call.op \in Comparisons =>
        (call.result = "ValueError" <=> ~Usable(ohash, obsprice))

(***************************************************************************)
(* C8, as the code has it: a comparison of two prices raises exactly when  *)
(* their pairs differ, the inverted pair included, and otherwise compares  *)
(* the rates.                                                              *)
(***************************************************************************)
ComparisonNeedsSamePair ==
    call.op \in Comparisons =>
        IF obsprice.pair = ohash.threshprice.pair
          THEN call.result = PyBool(Compares(call.op))
          ELSE call.result = "ValueError"

\* A comparison with a price of the inverted pair has raised.
ComparisonNeedsSamePair_witness ==
    /\ call.op = "ge"
    /\ obsprice.pair = Pair_swap(ohash.threshprice.pair)
    /\ call.result = "ValueError"

(***************************************************************************)
(* An account on its own: a caller hands it bags and empties it.           *)
(***************************************************************************)
InitAccount ==
    /\ bags = << >>
    /\ accts = <<[bags |-> << >>, StudyResults |-> << >>]>>
    /\ accounts = <<1>>
    /\ tranches = << >>
    /\ pricelistcache = << >>
    /\ StudyX = << >>
    /\ StudyPriceEnv = << >>
    /\ knownprices = << >>
    /\ GhostIdle
    /\ received = NoReceived
    /\ PriceIdle
    /\ LadderIdle

\* The caller makes an AssetBag and hands it to receive.
Receive(amount, sym) ==
    /\ SumOver([s \in Symbols |-> received[s].n], Symbols) < MaxReceives
    /\ SetStore(Account_receive([Store EXCEPT !.bag = Append(@, AssetBag(amount, sym))],
                                accounts[1], Len(bags) + 1))
    /\ received' = [received EXCEPT ![sym] = [n |-> @.n + 1, sum |-> @.sum + amount]]
    /\ last' = [NoCall EXCEPT !.op = "receive"]
    /\ UNCHANGED <<contractVars, knownprices, nCalls, uniform, studyValid, priceVars, ladderVars>>

Empty ==
    /\ SetStore(Account_empty(Store, accounts[1]))
    /\ received' = NoReceived
    /\ last' = [NoCall EXCEPT !.op = "empty"]
    /\ UNCHANGED <<contractVars, knownprices, nCalls, uniform, studyValid, priceVars, ladderVars>>

NextAccount ==
    \/ \E amount \in 0..MaxAmount, sym \in Symbols : Receive(amount, sym)
    \/ Empty

SpecAccount == InitAccount /\ [][NextAccount]_vars

(***************************************************************************)
(* C10: an account holds one bag for each symbol received since its last   *)
(* empty and none for any other symbol, and the bag of a symbol holds the  *)
(* sum of the amounts received for it; the account the caller refers to    *)
(* stays the one object.                                                   *)
(***************************************************************************)
BagsOf(a, sym) == {i \in DOMAIN accts[a].bags : bags[accts[a].bags[i]].symbol = sym}

AccountMergesBySymbol ==
    /\ accounts = <<1>> /\ Len(accts) = 1
    /\ \A sym \in Symbols :
          /\ Cardinality(BagsOf(1, sym)) = IF received[sym].n > 0 THEN 1 ELSE 0
          /\ Holdings(1, sym) = received[sym].sum

\* One symbol received twice and merged, another once.
AccountMergesBySymbol_witness ==
    /\ received["USD"].n = 2 /\ received["BTS"].n = 1
    /\ Holdings(1, "USD") = 3
    /\ Len(accts[1].bags) = 2
    /\ last.op = "receive"

(***************************************************************************)
(* Text and bytes (HashLadder.py, LadderElements.py).                      *)
(*                                                                         *)
(* A str and a bytes value are sequences of tokens.  The digest of a       *)
(* message is the term H(message): the hash function is taken free of      *)
(* collisions, two digests being equal only when their messages are.       *)
(***************************************************************************)
\* An object that was not made: the exception raised in its place, or None.
Raised(exception) == [err |-> exception]

\* hash_function(msgbytes).digest()
BytesHash(msgbytes) == <<"H(">> \o msgbytes \o <<")">>

\* msgstring.encode('utf-8')
encode(msgstring) == <<"utf8(">> \o msgstring \o <<")">>

StringHash(msgstring) == BytesHash(encode(msgstring))

\* blob.hex()
hex(blob) == <<"hex(">> \o blob \o <<")">>

\* A digest of 32 bytes has 64 hex digits.
IsDigest(blob) == Len(blob) >= 2 /\ blob[1] = "H(" /\ blob[Len(blob)] = ")"

(***************************************************************************)
(* SimpleMerkleRoot                                                        *)
(***************************************************************************)
\* One level up, where the odd last element is hashed with itself.
Reduced_duplicating(hashes) ==
    [k \in 1..((Len(hashes) + 1) \div 2) |->
        IF 2 * k - 1 < Len(hashes)
        THEN BytesHash(hashes[2 * k - 1] \o hashes[2 * k])
        ELSE BytesHash(hashes[2 * k - 1] \o hashes[2 * k - 1])]

\* The loop over i = 0, 2, 4, ...: the k-th turn has i = 2k - 2, ilast = len - 1.
Reduced(hashes) ==
    [k \in 1..((Len(hashes) + 1) \div 2) |->
        IF 2 * k - 1 < Len(hashes)
        THEN BytesHash(hashes[2 * k - 1] \o hashes[2 * k])
        ELSE hashes[2 * k - 1]]

\* A root that hashes the number of hashes in at every level.
RECURSIVE SimpleMerkleRoot_counting(_)
SimpleMerkleRoot_counting(hashes) ==
    IF Len(hashes) = 0 THEN BytesHash(<< >>)
    ELSE IF Len(hashes) = 1 THEN hashes[1]
    ELSE BytesHash(<<ToString(Len(hashes))>> \o SimpleMerkleRoot_counting(Reduced(hashes)))

RECURSIVE SimpleMerkleRoot(_)
SimpleMerkleRoot(hashes) ==
    IF Len(hashes) = 0 THEN BytesHash(<< >>)
    ELSE IF Len(hashes) = 1 THEN hashes[1]
    ELSE SimpleMerkleRoot(Reduced(hashes))

(***************************************************************************)
(* class HashLadder                                                        *)
(***************************************************************************)
\* ladder: the kernels, each the hash of the one before, the first of rootHash
RECURSIVE Kernels(_, _)
Kernels(rootHash, numHashes) ==
    IF numHashes = 1 THEN <<BytesHash(rootHash)>>
    ELSE LET ladder == Kernels(rootHash, numHashes - 1)
         IN  Append(ladder, BytesHash(ladder[Len(ladder)]))

\* "%s:i%d:%s" % (header, i, kernel.hex())
Pretext(header, i, kernel) == header \o <<":i", ToString(i), ":">> \o hex(kernel)

\* A ladder whose hashes are taken of the pretexts, not of the preimages.
HashLadder_hashOfPretext(header, rootHash, numHashes) ==
    IF ~IsDigest(rootHash) THEN Raised("ValueError")
    ELSE IF ~(numHashes > 0) THEN Raised("ValueError")
    ELSE LET ladder == Kernels(rootHash, numHashes)
             pretexts == [k \in 1..Len(ladder) |-> Pretext(header, k - 1, ladder[k])]
         IN  [err |-> "none",
              pretexts |-> pretexts,
              preimages |-> [k \in 1..Len(ladder) |-> StringHash(pretexts[k])],
              hashes |-> [k \in 1..Len(ladder) |-> StringHash(pretexts[k])]]

\* The k-th entry of the model is the entry of index i = k - 1 of the code.
HashLadder(header, rootHash, numHashes) ==
    IF ~IsDigest(rootHash) THEN Raised("ValueError")
    ELSE IF ~(numHashes > 0) THEN Raised("ValueError")
    ELSE LET ladder == Kernels(rootHash, numHashes)
             pretexts == [k \in 1..Len(ladder) |-> Pretext(header, k - 1, ladder[k])]
             preimages == [k \in 1..Len(ladder) |-> StringHash(pretexts[k])]
         IN  [err |-> "none",
              pretexts |-> pretexts,
              preimages |-> preimages,
              hashes |-> [k \in 1..Len(ladder) |-> BytesHash(preimages[k])]]

getMerkleRoot(self) == SimpleMerkleRoot(self.hashes)

(***************************************************************************)
(* class HashTable                                                         *)
(*                                                                         *)
(* Prices and factors are exact rationals.  factor ** (1 / steps) is the   *)
(* exact root: the tables built are those whose factor has one.            *)
(***************************************************************************)
RateMul(a, b) == Rate(a.n * b.n, a.d * b.d)

RECURSIVE RatePow(_, _)
RatePow(a, k) == IF k = 0 THEN Rate(1, 1) ELSE RateMul(RatePow(a, k - 1), a)

\* factor ** (1 / steps)
RateRoot(a, k) ==
    CHOOSE q \in {Rate(n, 1) : n \in 1..a.n} \cup {Rate(1, d) : d \in 1..a.d} :
        RateEQ(RatePow(q, k), a)

RECURSIVE GCD(_, _)
GCD(a, b) == IF b = 0 THEN a ELSE GCD(b, a % b)

\* "%g" % rate: the text of a number, the same for equal numbers
FormatG(a) == LET g == GCD(a.n, a.d)
              IN  IF a.d \div g = 1 THEN <<ToString(a.n \div g)>>
                  ELSE <<ToString(a.n \div g), "/", ToString(a.d \div g)>>

\* What getDecadeSteps raises: 1 / steps with no steps, 1 / stepmult with a
\* stepmult of zero, and stepmult > 1 with the complex root of a negative
\* factor.
getDecadeSteps_raises(factor, steps) ==
    IF steps = 0 THEN "ZeroDivisionError"
    ELSE IF factor.n < 0 /\ steps > 1 THEN "TypeError"
    ELSE IF factor.n = 0 THEN "ZeroDivisionError"
    ELSE "none"

\* The step multipliers of one decade, the last one snapped to the factor.
getDecadeSteps(factor, steps) ==
    LET stepmult == IF steps = 1 THEN factor ELSE RateRoot(factor, steps)
        result == [i \in 1..steps |-> RatePow(stepmult, i)]
    IN  [result EXCEPT ![steps] = factor]

\* prices.extend([prices[-1] * ds for ds in decadeSteps]), numdecades times
RECURSIVE PricesFrom(_, _, _)
PricesFrom(prices, decadeSteps, numdecades) ==
    IF numdecades = 0 THEN prices
    ELSE PricesFrom(prices \o [i \in 1..Len(decadeSteps) |->
                                  RateMul(prices[Len(prices)], decadeSteps[i])],
                    decadeSteps, numdecades - 1)

\* A price list that loses the last step of the last decade.
getPrices_short(self) ==
    LET prices == PricesFrom(<<self.leadprice>>,
                             getDecadeSteps(self.decadefactor, self.steps),
                             self.numdecades)
    IN  IF Len(prices) > 1 THEN SubSeq(prices, 1, Len(prices) - 1) ELSE prices

getPrices(self) ==
    PricesFrom(<<self.leadprice>>, getDecadeSteps(self.decadefactor, self.steps),
               self.numdecades)

\* "d<date>:<gele>:<BASE>:<QUOTE>:<t|b><leadprice>:f<normfactor>:s<steps>"
ConstructPretextHeader(self) ==
    <<"d", self.date, ":", self.gele, ":", self.pair.base, ":", self.pair.quote, ":",
      IF self.descending THEN "t" ELSE "b">>
    \o FormatG(self.leadprice) \o <<":", "f">> \o FormatG(self.normfactor)
    \o <<":", "s", ToString(self.steps)>>

\* A secret is [type, text]: a str or another type of value, and its characters.
Secret(type, text) == [type |-> type, text |-> text]

\* A root hash that leaves the secret out.
getRootHash_noSecret(self, secret) ==
    IF secret.type # "str" THEN <<"ValueError">>
    ELSE BytesHash(encode(self.header))

getRootHash(self, secret) ==
    IF secret.type # "str" THEN <<"ValueError">>
    ELSE BytesHash(encode(self.header \o secret.text))

\* x ^ y on bytes
RECURSIVE Xor(_, _)
Xor(x, y) == IF x = 0 THEN y
             ELSE IF y = 0 THEN x
             ELSE 2 * Xor(x \div 2, y \div 2) + ((x + y) % 2)

charlist == <<"_", "/", "|", "\\", "-", "~", ".", ".", ",", "o", "O", ":", ";", "+",
              "L", "T", "U", "^", "a", "b", "s", "p", "g", "*", "#", "3", "7", "8",
              "%", "?", "'", "'">>

\* finger_mid, the sha256 digest of "f:" + hex(sha256(secret)) + ":fingerprint",
\* is 32 bytes that the secret determines: fingermid[secret.text].
getSecretFingerprint(secret) ==
    LET finger_mid == fingermid[secret.text]
        tmpA == [i \in 1..16 |-> Xor(finger_mid[i], finger_mid[i + 16])]
        tmpB == [i \in 1..12 |-> Xor(tmpA[i], tmpA[i + 4]) % 32]
    IN  [i \in 1..12 |-> charlist[tmpB[i] + 1]]

HashTable(targetdate, leadprice, secret, cfgsection, flip) ==
    LET steps == cfgsection.steps
        numdecades == cfgsection.decades
        tailprice == RateMul(leadprice.price, RatePow(cfgsection.factor, numdecades))
        decadefactor == IF flip THEN RateInv(cfgsection.factor) ELSE cfgsection.factor
        ascending == RateGT(decadefactor, Rate(1, 1))
        descending == RateGT(Rate(1, 1), decadefactor)
        fields == [date |-> targetdate,
                   leadprice |-> IF flip THEN tailprice ELSE leadprice.price,
                   tailprice |-> IF flip THEN leadprice.price ELSE tailprice,
                   pair |-> leadprice.pair,
                   decadefactor |-> decadefactor,
                   steps |-> steps,
                   numdecades |-> numdecades,
                   ascending |-> ascending,
                   descending |-> descending,
                   normfactor |-> IF ascending THEN decadefactor
                                  ELSE RateInv(decadefactor),
                   gele |-> IF descending THEN ">=" ELSE "<=",
                   numhashes |-> steps * numdecades + 1]
        header == ConstructPretextHeader(fields)
        roothash == getRootHash([header |-> header], secret)
        ladder == HashLadder(header, roothash, fields.numhashes)
    IN  IF cfgsection.factor.n = 0 THEN Raised("ZeroDivisionError")
        ELSE IF roothash = <<"ValueError">> THEN Raised("ValueError")
        ELSE IF ladder.err # "none" THEN Raised(ladder.err)
        ELSE IF getDecadeSteps_raises(decadefactor, steps) # "none"
               THEN Raised(getDecadeSteps_raises(decadefactor, steps))
        ELSE [err |-> "none", date |-> fields.date, leadprice |-> fields.leadprice,
              tailprice |-> fields.tailprice, pair |-> fields.pair,
              decadefactor |-> decadefactor, steps |-> steps,
              numdecades |-> numdecades, ascending |-> ascending,
              descending |-> descending, normfactor |-> fields.normfactor,
              gele |-> fields.gele, header |-> header,
              numhashes |-> fields.numhashes, roothash |-> roothash,
              fingerprint |-> getSecretFingerprint(secret),
              ladder |-> ladder, merkleroot |-> getMerkleRoot(ladder),
              prices |-> getPrices(fields)]

\* obs >= price, of two numbers
RateGE(a, b) == ~RateGT(b, a)

\* A condition that a price equal to the threshold does not meet.
checkConditionMet_strict(self, price, obs) ==
    IF self.descending THEN PyBool(RateGT(obs, price))
    ELSE IF self.ascending THEN PyBool(RateGT(price, obs))
    ELSE "Exception"

checkConditionMet(self, price, obs) ==
    IF self.descending THEN PyBool(RateGE(obs, price))
    ELSE IF self.ascending THEN PyBool(RateGE(price, obs))
    ELSE "Exception"

\* The indices at which getGenerator's own comparison holds.
Matches(self, obs) ==
    {i \in 1..Len(self.prices) :
        IF self.descending THEN RateGE(obs, self.prices[i])
        ELSE RateGE(self.prices[i], obs)}

\* Falling off the end of the loop returns None.
getGenerator(self, obs) ==
    IF ~self.descending /\ ~self.ascending THEN <<"Exception">>
    ELSE IF Matches(self, obs) = {} THEN <<"None">>
    ELSE self.ladder.pretexts[Min(Matches(self, obs))]

\* The rows of the reveal table: the predicate, the threshold, and the
\* preimage or the text that withholds it.
RevealRows(self, obs) ==
    [i \in 1..Len(self.prices) |->
        [gele |-> self.gele, price |-> self.prices[i],
         cell |-> IF checkConditionMet(self, self.prices[i], obs) = "True"
                  THEN <<"upper(">> \o hex(self.ladder.preimages[i]) \o <<")">>
                  ELSE <<"(Condition not met)">>]]

\* getContext asks for the generator, then the rows are made.
constructPreimageRevealTableText(self, obs) ==
    IF getGenerator(self, obs) = <<"Exception">> THEN Raised("Exception")
    ELSE [err |-> "none",
          generator |-> getGenerator(self, obs),
          rows |-> RevealRows(self, obs)]

(***************************************************************************)
(* Hash tables: a caller builds tables from one date, lead price and       *)
(* configuration section, and asks them for generators and reveal tables.  *)
(***************************************************************************)
StepMults == {Rate(2, 1), Rate(1, 2), Rate(1, 1)}

\* The sections of ladder.conf: factor, steps and decades.
Sections == {[factor |-> RatePow(m, s), steps |-> s, decades |-> d] :
                m \in StepMults, s \in 1..MaxSteps, d \in 0..MaxDecades}

Secrets == {Secret("str", <<"SuperSecret">>), Secret("str", <<"OtherSecret">>),
            Secret("str", << >>), Secret("bytes", <<"SuperSecret">>)}

StrTexts == {s.text : s \in {x \in Secrets : x.type = "str"}}

\* sha256 is not computed: the digest of a fingerprint is one of these byte
\* strings, and two secrets do not have the same one.
Digest(a, b) == [i \in 1..32 |-> (a * i + b) % 256]
SwapHalves(d) == [i \in 1..32 |-> d[((i + 15) % 32) + 1]]
Digests == {Digest(37, 11), SwapHalves(Digest(37, 11)), Digest(91, 5)}

ObsLevels == {Rate(n, d) : n \in 0..MaxObs, d \in {1, 8}}

NoTable == Raised("None")
NoSecret == Secret("None", << >>)
NoReply == [op |-> "none", k |-> 0, secret |-> NoSecret, obs |-> Rate(0, 1),
            result |-> Raised("None")]

Arguments == [date : {"200223"}, leadprice : {Price(Rate(2, 1), Pair("BTS", "USD"))},
              section : Sections, flip : BOOLEAN]

DigestsOfSecrets == {f \in [StrTexts -> Digests] :
                        \A s, t \in StrTexts : s # t => f[s] # f[t]}

TableOthersIdle ==
    /\ BuiltContract(<< >>)
    /\ knownprices = << >>
    /\ GhostIdle
    /\ received = NoReceived
    /\ PriceIdle
    /\ MerkleIdle
    /\ FaceIdle
    /\ SpacerIdle

\* One table, of any section.
InitTable ==
    /\ TableOthersIdle
    /\ cfg \in Arguments
    /\ HT = <<NoTable>>
    /\ madeWith = <<NoSecret>>
    /\ fingermid = CHOOSE f \in DigestsOfSecrets : TRUE
    /\ reply = NoReply

\* Two tables of one section, built from secrets of any digests.
InitSecrets ==
    /\ TableOthersIdle
    /\ cfg \in {a \in Arguments : a.section.steps = 1 /\ a.section.decades = 1
                                  /\ a.section.factor = Rate(1, 2)}
    /\ HT = <<NoTable, NoTable>>
    /\ madeWith = <<NoSecret, NoSecret>>
    /\ fingermid \in DigestsOfSecrets
    /\ reply = NoReply

TableFrame == UNCHANGED <<bags, accts, contractVars, knownprices, last, nCalls, uniform,
                          studyValid, received, priceVars, cfg, fingermid, leaves,
                          merkle, face, spacerVars>>

\* HT[k] = HashTable(date, leadprice, secret, section, flip): the name is
\* bound only when the constructor returns.
NewHashTable(k, secret) ==
    LET made == HashTable(cfg.date, cfg.leadprice, secret, cfg.section, cfg.flip)
    IN  /\ HT' = IF made.err = "none" THEN [HT EXCEPT ![k] = made] ELSE HT
        /\ madeWith' = IF made.err = "none" THEN [madeWith EXCEPT ![k] = secret]
                       ELSE madeWith
        /\ reply' = [op |-> "HashTable", k |-> k, secret |-> secret, obs |-> Rate(0, 1),
                     result |-> Raised(made.err)]
        /\ TableFrame

CallGetGenerator(k, obs) ==
    /\ HT[k].err = "none"
    /\ reply' = [op |-> "getGenerator", k |-> k, secret |-> NoSecret, obs |-> obs,
                 result |-> [err |-> "none", generator |-> getGenerator(HT[k], obs)]]
    /\ UNCHANGED <<HT, madeWith>>
    /\ TableFrame

printPreimageRevealTable(k, obs) ==
    /\ HT[k].err = "none"
    /\ reply' = [op |-> "reveal", k |-> k, secret |-> NoSecret, obs |-> obs,
                 result |-> constructPreimageRevealTableText(HT[k], obs)]
    /\ UNCHANGED <<HT, madeWith>>
    /\ TableFrame

NextTable ==
    \/ \E k \in DOMAIN HT, secret \in Secrets : NewHashTable(k, secret)
    \/ \E k \in DOMAIN HT, obs \in ObsLevels : CallGetGenerator(k, obs)
    \/ \E k \in DOMAIN HT, obs \in ObsLevels : printPreimageRevealTable(k, obs)

SpecTable == InitTable /\ [][NextTable]_vars

SpecSecrets == InitSecrets /\ [][NextTable]_vars

\* Sections whose options are numbers of the right type but not a ladder:
\* no steps, a factor of zero, a negative factor.
OddSections ==
    {[factor |-> m, steps |-> 0, decades |-> d] : m \in StepMults, d \in 0..MaxDecades}
    \cup {[factor |-> f, steps |-> s, decades |-> d] :
             f \in {Rate(0, 1), Rate(0 - 2, 1)}, s \in 1..MaxSteps, d \in 0..MaxDecades}

\* One table, of a section of either kind.
InitConfig ==
    /\ TableOthersIdle
    /\ cfg \in [date : {"200223"}, leadprice : {Price(Rate(2, 1), Pair("BTS", "USD"))},
                section : OddSections \cup {s \in Sections : s.decades = 1},
                flip : BOOLEAN]
    /\ HT = <<NoTable>>
    /\ madeWith = <<NoSecret>>
    /\ fingermid = CHOOSE f \in DigestsOfSecrets : TRUE
    /\ reply = NoReply

SpecConfig == InitConfig /\ [][NextTable]_vars

(***************************************************************************)
(* C11: in a reveal table made for an observed price, the rows that        *)
(* disclose a preimage are exactly the indices whose threshold satisfies   *)
(* the table's predicate (observed >= threshold in a descending table,     *)
(* observed <= threshold in an ascending one); they form one run that ends *)
(* at the last index, the generator is the pretext of the first index of   *)
(* the run, and when no threshold satisfies the predicate there is no      *)
(* generator and no row is disclosed.  A threshold equal to the observed   *)
(* price is disclosed.                                                     *)
(***************************************************************************)
Withheld == <<"(Condition not met)">>

Disclosed(rows) == {i \in DOMAIN rows : rows[i].cell # Withheld}

Satisfying(T, obs) ==
    {i \in DOMAIN T.prices :
        IF T.descending THEN obs.n * T.prices[i].d >= T.prices[i].n * obs.d
        ELSE obs.n * T.prices[i].d <= T.prices[i].n * obs.d}

Revealed == reply.op = "reveal" /\ reply.result.err = "none"

RevealDisclosesTheRun ==
    Revealed =>
        LET T == HT[reply.k]
            rows == reply.result.rows
            run == Disclosed(rows)
            N == Len(T.prices)
        IN  /\ T.descending \/ T.ascending
            /\ Len(rows) = N
            /\ run = Satisfying(T, reply.obs)
            /\ \A i \in run : i + 1 <= N => i + 1 \in run
            /\ \A i \in run :
                  rows[i].cell = <<"upper(", "hex(">> \o T.ladder.preimages[i] \o <<")", ")">>
            /\ \A i \in 1..N : RateEQ(reply.obs, T.prices[i]) => i \in run
            /\ IF run = {} THEN reply.result.generator = <<"None">>
               ELSE \E first \in run :
                       /\ \A i \in run : first <= i
                       /\ run = first..N
                       /\ reply.result.generator = T.ladder.pretexts[first]

\* The observed price is a threshold in the middle of a table of five rows:
\* that row and those after it are disclosed, those before it are not.
RevealDisclosesTheRun_witness ==
    /\ Revealed
    /\ Len(reply.result.rows) = 5
    /\ Disclosed(reply.result.rows) = 3..5
    /\ RateEQ(reply.obs, HT[reply.k].prices[3])
    /\ reply.result.generator = HT[reply.k].ladder.pretexts[3]

(***************************************************************************)
(* C12: a table built from steps >= 1 and decades >= 0 has as many ladder  *)
(* entries as price thresholds: len(hashes) = len(preimages) =             *)
(* len(pretexts) = len(prices) = steps * decades + 1.                      *)
(***************************************************************************)
TableLengthsAgree ==
    \A k \in DOMAIN HT :
        HT[k].err = "none" =>
            LET count == cfg.section.steps * cfg.section.decades + 1
            IN  /\ cfg.section.steps >= 1 /\ cfg.section.decades >= 0
                /\ Len(HT[k].ladder.hashes) = count
                /\ Len(HT[k].ladder.preimages) = count
                /\ Len(HT[k].ladder.pretexts) = count
                /\ Len(HT[k].prices) = count
                /\ HT[k].numhashes = count

\* Tables of two steps in each of two decades, and of no decade at all.
TableLengthsAgree_witness ==
    /\ HT[1].err = "none"
    /\ cfg.section.steps = 2 /\ cfg.section.decades = 2
    /\ Len(HT[1].prices) = 5
    /\ Len(HT[1].ladder.hashes) = 5

(***************************************************************************)
(* C13: the ladder of a table is built from (header, rootHash, N) so that, *)
(* for every index i in 0..N-1, kernel[i] is H applied i + 1 times to      *)
(* rootHash, pretext[i] = header + ":i" + i + ":" + hex(kernel[i]),        *)
(* preimage[i] = H(utf8(pretext[i])) and hash[i] = H(preimage[i]); hence   *)
(* the pretext of index i alone gives, by hashing its kernel forward, the  *)
(* pretext, preimage and hash of every index j > i.                        *)
(***************************************************************************)
RECURSIVE HashTimes(_, _)
HashTimes(n, blob) == IF n = 0 THEN blob
                      ELSE <<"H(">> \o HashTimes(n - 1, blob) \o <<")">>

\* What a reader of the pretext of index i derives for index j: the header is
\* the text before ":i", the kernel the blob inside the hex text at the end.
Regenerated(pretext, i, j) ==
    LET mark == Min({p \in DOMAIN pretext : pretext[p] = ":i"})
        header == SubSeq(pretext, 1, mark - 1)
        kernel == SubSeq(pretext, mark + 4, Len(pretext) - 1)
        text == header \o <<":i", ToString(j), ":", "hex(">>
                    \o HashTimes(j - i, kernel) \o <<")">>
        preimage == <<"H(", "utf8(">> \o text \o <<")", ")">>
    IN  [pretext |-> text, preimage |-> preimage,
         hash |-> <<"H(">> \o preimage \o <<")">>]

LadderIsAHashChain ==
    \A k \in DOMAIN HT :
        HT[k].err = "none" =>
            LET T == HT[k]
                N == T.numhashes
            IN  /\ DOMAIN T.ladder.pretexts = 1..N
                /\ \A i \in 0..(N - 1) :
                      /\ T.ladder.pretexts[i + 1] =
                            T.header \o <<":i", ToString(i), ":", "hex(">>
                                \o HashTimes(i + 1, T.roothash) \o <<")">>
                      /\ T.ladder.preimages[i + 1] =
                            <<"H(", "utf8(">> \o T.ladder.pretexts[i + 1] \o <<")", ")">>
                      /\ T.ladder.hashes[i + 1] =
                            <<"H(">> \o T.ladder.preimages[i + 1] \o <<")">>
                /\ \A i \in 0..(N - 1) : \A j \in (i + 1)..(N - 1) :
                      Regenerated(T.ladder.pretexts[i + 1], i, j) =
                          [pretext |-> T.ladder.pretexts[j + 1],
                           preimage |-> T.ladder.preimages[j + 1],
                           hash |-> T.ladder.hashes[j + 1]]

\* A ladder of five entries, its last one regenerated from its second.
LadderIsAHashChain_witness ==
    /\ HT[1].err = "none"
    /\ HT[1].numhashes = 5
    /\ Regenerated(HT[1].ladder.pretexts[2], 1, 4).hash = HT[1].ladder.hashes[5]
    /\ HT[1].ladder.hashes[5] # HT[1].ladder.hashes[2]

(***************************************************************************)
(* SimpleMerkleRoot on its own: a caller hands it a list of leaf hashes.   *)
(***************************************************************************)
LeafHashes == {BytesHash(<<"A">>), BytesHash(<<"B">>), BytesHash(<<"C">>)}

InitMerkle ==
    /\ BuiltContract(<< >>)
    /\ knownprices = << >>
    /\ GhostIdle
    /\ received = NoReceived
    /\ PriceIdle
    /\ TableIdle
    /\ FaceIdle
    /\ SpacerIdle
    /\ leaves \in SeqsUpTo(LeafHashes, MaxLeaves)
    /\ merkle = Raised("None")

CallSimpleMerkleRoot ==
    /\ merkle' = [err |-> "none", root |-> SimpleMerkleRoot(leaves)]
    /\ UNCHANGED <<bags, accts, contractVars, knownprices, last, nCalls, uniform,
                   studyValid, received, priceVars, tableVars, leaves, face,
                   spacerVars>>

NextMerkle == CallSimpleMerkleRoot

SpecMerkle == InitMerkle /\ [][NextMerkle]_vars

(***************************************************************************)
(* C14: SimpleMerkleRoot pairs adjacent hashes left to right and replaces  *)
(* each pair (a, b) by H(a || b); the last element of a level of odd       *)
(* length is carried up unchanged; this is repeated until one hash is      *)
(* left.  A list of one element gives that element, the empty list gives   *)
(* H(empty bytes), and root([a, b, c]) = H(H(a || b) || c).                *)
(***************************************************************************)
HashOfPair(a, b) == <<"H(">> \o a \o b \o <<")">>

\* The largest power of two below n, for n >= 2.
RECURSIVE SplitBelow(_, _)
SplitBelow(p, n) == IF 2 * p < n THEN SplitBelow(2 * p, n) ELSE p

\* The tree that pairing level by level builds: a full tree over the first
\* 2^k leaves to the left, the tree of the leaves that are left to the right.
RECURSIVE TreeRoot(_)
TreeRoot(hashes) ==
    IF Len(hashes) = 1 THEN hashes[1]
    ELSE LET p == SplitBelow(1, Len(hashes))
         IN  HashOfPair(TreeRoot(SubSeq(hashes, 1, p)),
                        TreeRoot(SubSeq(hashes, p + 1, Len(hashes))))

MerkleRootPairsLeftToRight ==
    merkle.err = "none" =>
        /\ Len(leaves) = 0 => merkle.root = <<"H(", ")">>
        /\ Len(leaves) = 1 => merkle.root = leaves[1]
        /\ Len(leaves) = 2 => merkle.root = HashOfPair(leaves[1], leaves[2])
        /\ Len(leaves) = 3 =>
              merkle.root = HashOfPair(HashOfPair(leaves[1], leaves[2]), leaves[3])
        /\ Len(leaves) >= 1 => merkle.root = TreeRoot(leaves)

\* Three different leaves: the third is carried up and hashed once.
MerkleRootPairsLeftToRight_witness ==
    /\ merkle.err = "none"
    /\ Len(leaves) = 3
    /\ leaves[1] # leaves[2] /\ leaves[2] # leaves[3] /\ leaves[1] # leaves[3]
    /\ merkle.root = <<"H(", "H(">> \o leaves[1] \o leaves[2] \o <<")">>
                        \o leaves[3] \o <<")">>

(***************************************************************************)
(* C15: two tables built from the same date, lead price and configuration  *)
(* but from two different secrets have the same header, different Merkle   *)
(* roots and different fingerprints.                                       *)
(***************************************************************************)
TwoTables == Len(HT) = 2 /\ HT[1].err = "none" /\ HT[2].err = "none"

BadSecretIsRejected ==
    /\ reply.op = "HashTable"
    /\ reply.secret.type # "str" \/ reply.secret.text = << >>
    => /\ reply.result.err = "ValueError"
       /\ madeWith[reply.k] # reply.secret

(***************************************************************************)
(* BoundedStableCoin.Face: the search for the number of steps.             *)
(*                                                                         *)
(* pow(upside, 1 / n) is kept as the root it is, [radicand, index], and    *)
(* compared with a rational by raising both sides to the power index, on   *)
(* natural numbers of any size: sequences of digits to the base 10000,     *)
(* the lowest digit first.                                                 *)
(***************************************************************************)
RECURSIVE BigTimesDigits(_, _, _)
BigTimesDigits(x, k, carry) ==
    IF x = << >>
      THEN IF carry = 0 THEN << >>
           ELSE <<carry % 10000>> \o BigTimesDigits(<< >>, k, carry \div 10000)
      ELSE <<(x[1] * k + carry) % 10000>>
               \o BigTimesDigits(Tail(x), k, (x[1] * k + carry) \div 10000)

\* x * k + carry, with x worked out once
BigTimes(x, k, carry) ==
    CHOOSE product \in {BigTimesDigits(digits, k, carry) : digits \in {x}} : TRUE

RECURSIVE BigPow(_, _)
BigPow(k, n) == IF n = 0 THEN <<1>> ELSE BigTimes(BigPow(k, n - 1), k, 0)

RECURSIVE BigLessDigits(_, _)
BigLessDigits(x, y) ==
    IF Len(x) # Len(y) THEN Len(x) < Len(y)
    ELSE IF x = << >> THEN FALSE
    ELSE IF x[Len(x)] # y[Len(y)] THEN x[Len(x)] < y[Len(y)]
    ELSE BigLessDigits(SubSeq(x, 1, Len(x) - 1), SubSeq(y, 1, Len(y) - 1))

\* x < y, with x and y worked out once
BigLess(x, y) == \E a \in {x}, b \in {y} : BigLessDigits(a, b)

\* pow(radicand, 1 / index)
Root(radicand, index) == [radicand |-> radicand, index |-> index]

\* a < root, for a rational a > 0: a ^ index < radicand
LessThanRoot(a, root) ==
    BigLess(BigTimes(BigPow(a.n, root.index), root.radicand.d, 0),
            BigTimes(BigPow(a.d, root.index), root.radicand.n, 0))

\* growthtol = tolerance + 1;  n_upside = 0
FaceLocals(upside, tolerance) ==
    [err |-> "none", at |-> "while", upside |-> upside, tolerance |-> tolerance,
     n_upside |-> 0,
     growthtol |-> Root(Rate(tolerance.n + tolerance.d, tolerance.d), 1)]

\* The test of a loop that also goes on when the two are equal.
WhileTest_orEqual(f) ==
    ~BigLess(BigTimes(BigPow(f.tolerance.d, f.growthtol.index), f.growthtol.radicand.n, 0),
             BigTimes(BigPow(f.tolerance.n, f.growthtol.index), f.growthtol.radicand.d, 0))

\* while tolerance < growthtol
WhileTest(f) == LessThanRoot(f.tolerance, f.growthtol)

\* A loop body that takes the root again without counting the step.
WhileBody_uncounted(f) == [f EXCEPT !.growthtol = Root(f.upside, f.n_upside + 1)]

\* n_upside += 1;  growthtol = pow(upside, 1 / n_upside)
WhileBody(f) == [f EXCEPT !.n_upside = f.n_upside + 1,
                          !.growthtol = Root(f.upside, f.n_upside + 1)]

RECURSIVE FaceWhile(_)
FaceWhile(f) == IF WhileTest(f) THEN FaceWhile(WhileBody(f)) ELSE f

(***************************************************************************)
(* The search as a state machine: `face' holds the arguments and the       *)
(* locals of one call of Face, which is in the loop of lines 125-129 or    *)
(* has left it for line 130.                                               *)
(***************************************************************************)
Upsides == {Rate(u, 1) : u \in 2..MaxUpside}
Tolerances == {Rate(10 + t, 10) : t \in (0 - 1)..MaxTenths}

\* Face has been called and has not yet looked at the tolerance.
FaceCalled(upside, tolerance) ==
    [err |-> "none", at |-> "enter", upside |-> upside, tolerance |-> tolerance,
     n_upside |-> 0, growthtol |-> Root(Rate(1, 1), 1)]

InitFace ==
    /\ BuiltContract(<< >>)
    /\ knownprices = << >>
    /\ GhostIdle
    /\ received = NoReceived
    /\ PriceIdle
    /\ TableIdle
    /\ MerkleIdle
    /\ SpacerIdle
    /\ \E upside \in Upsides, tolerance \in Tolerances :
           face = FaceCalled(upside, tolerance)

FaceFrame ==
    UNCHANGED <<bags, accts, contractVars, knownprices, last, nCalls, uniform,
                studyValid, received, priceVars, tableVars, leaves, merkle,
                spacerVars>>

\* if tolerance <= 1: raise ValueError; else the locals are set
FaceEnter ==
    /\ face.at = "enter"
    /\ face' = IF ~RateGT(face.tolerance, Rate(1, 1))
                THEN [face EXCEPT !.err = "ValueError", !.at = "raised"]
                ELSE FaceLocals(face.upside, face.tolerance)
    /\ FaceFrame

WhileTurn ==
    /\ face.at = "while"
    /\ WhileTest(face)
    /\ face' = WhileBody(face)
    /\ FaceFrame

WhileExit ==
    /\ face.at = "while"
    /\ ~WhileTest(face)
    /\ face' = [face EXCEPT !.at = "principle"]
    /\ FaceFrame

NextFace == FaceEnter \/ WhileTurn \/ WhileExit

SpecFace == InitFace /\ [][NextFace]_vars

\* The call runs on: a step that can be taken is taken.
SpecFaceRuns == SpecFace /\ WF_vars(NextFace)

\* tolerance ^ n >= upside, that is upside ^ (1/n) <= tolerance
Reaches(tolerance, n, upside) ==
    ~BigLess(BigTimes(BigPow(tolerance.n, n), upside.d, 0),
             BigTimes(BigPow(tolerance.d, n), upside.n, 0))

LeastSteps(n, tolerance, upside) ==
    /\ n >= 1
    /\ Reaches(tolerance, n, upside)
    /\ \A m \in 1..(n - 1) : ~Reaches(tolerance, m, upside)

FaceOfTheExample ==
    /\ face.err = "none"
    /\ face.at = "principle"
    /\ face.upside = Rate(4, 1)
    /\ face.tolerance = Rate(11, 10)

(***************************************************************************)
(* C20, as stated: for an upside of 4 and a tolerance of 1.10 Face leaves  *)
(* the loop with n_upside = 14, the least n with 4 ^ (1/n) <= 1.10.        *)
(* 1.10 ^ 14 = 3.797... is below 4, so the loop takes one more turn.       *)
(***************************************************************************)
FaceChoosesFourteenSteps ==
    FaceOfTheExample =>
        /\ face.n_upside = 14
        /\ LeastSteps(14, face.tolerance, face.upside)

(***************************************************************************)
(* C20, as the code has it: Face leaves the loop with the least n >= 1     *)
(* for which upside ^ (1/n) <= tolerance, and for an upside of 4 and a     *)
(* tolerance of 1.10 that n is 15.                                         *)
(***************************************************************************)
FaceChoosesLeastSteps ==
    /\ (face.err = "none" /\ face.at = "principle") =>
           LeastSteps(face.n_upside, face.tolerance, face.upside)
    /\ FaceOfTheExample => face.n_upside = 15

FaceChoosesLeastSteps_witness ==
    /\ FaceOfTheExample
    /\ face.n_upside = 15

(***************************************************************************)
(* BoundedStableCoin.py                                                    *)
(*                                                                         *)
(* The floats of the code are exact rationals here, kept in lowest terms.  *)
(***************************************************************************)
RateNorm(a) ==
    IF a.n = 0 THEN Rate(0, 1)
    ELSE LET g == GCD(a.n, a.d) IN Rate(a.n \div g, a.d \div g)

RateTimes(a, b) == RateNorm(RateMul(a, b))

RateAdd(a, b) == RateNorm(Rate(a.n * b.d + b.n * a.d, a.d * b.d))

RateSub(a, b) == RateNorm(Rate(a.n * b.d - b.n * a.d, a.d * b.d))

\* RR.append(ratio * RR[-1]), k times
RECURSIVE Grow(_, _, _)
Grow(RR, ratio, k) ==
    IF k = 0 THEN RR
    ELSE Grow(Append(RR, RateTimes(ratio, RR[Len(RR)])), ratio, k - 1)

Reversed(s) == [i \in DOMAIN s |-> s[Len(s) + 1 - i]]

\* A series that starts at 1 and only rises.
GetGeometricSeries_oneSided(stepratio, n_above, n_below) ==
    Grow(<<Rate(1, 1)>>, stepratio, n_above)

\* RR = [1], n_below steps down, reversed, n_above steps up
GetGeometricSeries(stepratio, n_above, n_below) ==
    Grow(Reversed(Grow(<<Rate(1, 1)>>, RateInv(stepratio), n_below)), stepratio, n_above)

\* The midpoints listed from the highest to the lowest.
GetGeometricMidpoints_descending(somelist) ==
    [i \in 1..(Len(somelist) - 1) |->
        RateRoot(RateTimes(somelist[Len(somelist) - i], somelist[Len(somelist) + 1 - i]), 2)]

\* The lower element of each adjacent pair instead of the pair's midpoint.
GetGeometricMidpoints_lower(somelist) ==
    [i \in 1..(Len(somelist) - 1) |-> somelist[i]]

\* math.sqrt(a * b) of each adjacent pair
GetGeometricMidpoints(somelist) ==
    [i \in 1..(Len(somelist) - 1) |->
        RateRoot(RateTimes(somelist[i], somelist[i + 1]), 2)]

\* Slices that are all cut from the whole pie.
RECURSIVE Cut_fromTheWhole(_, _, _, _)
Cut_fromTheWhole(pieslices, remainder, cutratio, k) ==
    IF k = 0 THEN [pieslices |-> pieslices, remainder |-> remainder]
    ELSE Cut_fromTheWhole(Append(pieslices, RateTimes(remainder, cutratio)),
                          remainder, cutratio, k - 1)

\* pieslices.append(remainder * cutratio);  remainder -= pieslices[-1], k times
RECURSIVE Cut(_, _, _, _)
Cut(pieslices, remainder, cutratio, k) ==
    IF k = 0 THEN [pieslices |-> pieslices, remainder |-> remainder]
    ELSE Cut(Append(pieslices, RateTimes(remainder, cutratio)),
             RateSub(remainder, RateTimes(remainder, cutratio)), cutratio, k - 1)

\* number * price
Price_mul(self, number) == Price(RateTimes(number, self.price), self.pair)

\* The constructor cutting the share that should be kept: 1 / growthtolerance.
BoundedStableCoin_keptShare(principle, growthtolerance, todayprice, n_above, n_below) ==
    IF principle.symbol # todayprice.pair.base THEN Raised("ValueError")
    ELSE LET cutratio == RateInv(growthtolerance)
             switchprices ==
                 GetGeometricMidpoints(GetGeometricSeries(growthtolerance, n_above, n_below))
             cut == Cut(<< >>, principle.amount, cutratio, Len(switchprices))
         IN  [err |-> "none",
              specs |->
                [i \in DOMAIN switchprices |->
                   [ohash |-> GE(Price_mul(todayprice, switchprices[i])),
                    asset |-> AssetBag(cut.pieslices[i], principle.symbol),
                    route |-> <<1, 2>>]]
                \o <<[ohash |-> LT(Price_mul(todayprice, Rate(0, 1))),
                      asset |-> AssetBag(cut.remainder, principle.symbol),
                      route |-> <<1, 2>>]>>]

\* The tranches of the constructor with the two accounts exchanged.
BoundedStableCoin_exchanged(principle, growthtolerance, todayprice, n_above, n_below) ==
    IF principle.symbol # todayprice.pair.base THEN Raised("ValueError")
    ELSE LET cutratio == RateSub(Rate(1, 1), RateInv(growthtolerance))
             switchprices ==
                 GetGeometricMidpoints(GetGeometricSeries(growthtolerance, n_above, n_below))
             cut == Cut(<< >>, principle.amount, cutratio, Len(switchprices))
         IN  [err |-> "none",
              specs |->
                [i \in DOMAIN switchprices |->
                   [ohash |-> GE(Price_mul(todayprice, switchprices[i])),
                    asset |-> AssetBag(cut.pieslices[i], principle.symbol),
                    route |-> <<2, 1>>]]
                \o <<[ohash |-> LT(Price_mul(todayprice, Rate(0, 1))),
                      asset |-> AssetBag(cut.remainder, principle.symbol),
                      route |-> <<2, 1>>]>>]

\* BoundedStableCoin.__init__: the tranches it adds, in order.  route is
\* <<taccount, haccount>>: addTranche's defaults, accounts[0] and accounts[1].
BoundedStableCoin(principle, growthtolerance, todayprice, n_above, n_below) ==
    IF principle.symbol # todayprice.pair.base THEN Raised("ValueError")
    ELSE LET cutratio == RateSub(Rate(1, 1), RateInv(growthtolerance))
             switchprices ==
                 GetGeometricMidpoints(GetGeometricSeries(growthtolerance, n_above, n_below))
             cut == Cut(<< >>, principle.amount, cutratio, Len(switchprices))
         IN  [err |-> "none",
              specs |->
                [i \in DOMAIN switchprices |->
                   [ohash |-> GE(Price_mul(todayprice, switchprices[i])),
                    asset |-> AssetBag(cut.pieslices[i], principle.symbol),
                    route |-> <<1, 2>>]]
                \o <<[ohash |-> LT(Price_mul(todayprice, Rate(0, 1))),
                      asset |-> AssetBag(cut.remainder, principle.symbol),
                      route |-> <<1, 2>>]>>]

\* AssetBag.valuation of a bag given by value, its amount a rational
RECURSIVE ValuationFrom(_, _, _, _)
ValuationFrom(self, quote, prices, i) ==
    IF i > Len(prices) THEN Raised("ValueError")
    ELSE LET price == IF prices[i].pair.base = quote
                        THEN Price_flip(prices[i]) ELSE prices[i]
         IN  IF price.pair.base = self.symbol /\ price.pair.quote = quote
               THEN [err |-> "none",
                     amount |-> RateTimes(self.amount, price.price), symbol |-> quote]
               ELSE ValuationFrom(self, quote, prices, i + 1)

AssetBag_valuation(self, quote, prices) ==
    IF self.symbol = quote
      THEN [err |-> "none", amount |-> self.amount, symbol |-> quote]
      ELSE ValuationFrom(self, quote, prices, 1)

\* Account.valuation: value.absorb(bag.valuation(quote, prices)) for each bag
RECURSIVE AbsorbValuations(_, _, _, _, _)
AbsorbValuations(h, bs, quote, prices, value) ==
    IF bs = << >> THEN value
    ELSE LET v == AssetBag_valuation(
                      AssetBag(Rate(h.bag[Head(bs)].amount, 1), h.bag[Head(bs)].symbol),
                      quote, prices)
         IN  IF v.err # "none" THEN v
             ELSE AbsorbValuations(h, Tail(bs), quote, prices,
                                   [value EXCEPT !.amount = RateAdd(@, v.amount)])

Account_valuation(h, self, quote, prices) ==
    AbsorbValuations(h, h.acc[self].bags, quote, prices,
                     [err |-> "none", amount |-> Rate(0, 1), symbol |-> quote])

\* BoundedStableCoin.Face: the contract's tranches and the attributes set on
\* the contract and its accounts.
Face(facevalue, todayprice, upside, tolerance) ==
    IF ~RateGT(tolerance, Rate(1, 1)) THEN Raised("ValueError")
    ELSE LET f == FaceWhile(FaceLocals(upside, tolerance))
             growthtol == RateRoot(f.growthtol.radicand, f.growthtol.index)
             worth == AssetBag_valuation(facevalue, todayprice.pair.base, <<todayprice>>)
             principle == AssetBag(RateTimes(upside, worth.amount), worth.symbol)
             ret == BoundedStableCoin(principle, growthtol, todayprice,
                                      f.n_upside, f.n_upside)
         IN  IF worth.err # "none" THEN Raised(worth.err)
             ELSE IF ret.err # "none" THEN Raised(ret.err)
             ELSE [err |-> "none", at |-> "return",
                   upside |-> upside, tolerance |-> tolerance,
                   n_upside |-> f.n_upside, growthtol |-> growthtol,
                   principle |-> principle, specs |-> ret.specs,
                   openingbaseprice |-> todayprice, facevalue |-> facevalue,
                   fvspread |-> RateRoot(growthtol, 2),
                   startvalue |-> <<worth.amount, RateSub(principle.amount, worth.amount)>>]

(***************************************************************************)
(* A contract built by Face, and its settlement.                           *)
(*                                                                         *)
(* The arguments are those for which the roots the code takes are rational *)
(* and every tranche is a whole number of units, so that nothing is        *)
(* rounded: the upside is a power 2n of a whole number.                    *)
(***************************************************************************)
Steps(upside, tolerance) == FaceWhile(FaceLocals(upside, tolerance)).n_upside

IsPower(a, k) == \E q \in 1..a.n : RatePow(Rate(q, 1), k) = a

FaceGrid ==
    [facevalue : {AssetBag(Rate(4, 1), "USD"), AssetBag(Rate(16, 1), "USD")},
     todayprice : {Price(Rate(1, 2), BTSUSD), Price(Rate(1, 1), BTSUSD)},
     upside : {Rate(4, 1), Rate(16, 1)},
     tolerance : {Rate(4, 1), Rate(5, 1), Rate(16, 1)}]

FaceArguments ==
    {a \in FaceGrid :
        /\ IsPower(a.upside, 2 * Steps(a.upside, a.tolerance))
        /\ LET made == Face(a.facevalue, a.todayprice, a.upside, a.tolerance)
           IN  /\ made.err = "none"
               /\ \A k \in DOMAIN made.specs : made.specs[k].asset.amount.d = 1}

\* The tranche specifications with their amounts as whole numbers of units.
InUnits(specs) ==
    [k \in DOMAIN specs |->
        [specs[k] EXCEPT !.asset = AssetBag(specs[k].asset.amount.n, specs[k].asset.symbol)]]

\* Observed prices: the powers of two from 1/64 to 32, which hold every
\* threshold and both ends of every range, one price between two thresholds,
\* and one in the inverted orientation.
CoinPrices ==
    {Price(Rate(n, 1), BTSUSD) : n \in {1, 2, 3, 4, 8, 16, 32}}
    \cup {Price(Rate(1, d), BTSUSD) : d \in {2, 4, 8, 16, 32, 64}}
    \cup {Price(Rate(2, 1), USDBTS)}

InitCoin ==
    /\ \E a \in FaceArguments :
          /\ face = Face(a.facevalue, a.todayprice, a.upside, a.tolerance)
          /\ BuiltContract(InUnits(face.specs))
    /\ \E p \in CoinPrices : knownprices = <<p>>
    /\ GhostIdle
    /\ received = NoReceived
    /\ PriceIdle
    /\ TableIdle
    /\ MerkleIdle
    /\ SpacerIdle

SpecCoin == InitCoin /\ [][NextSettle]_vars

\* The contract is as Face returned it.
Faced == face.err = "none" /\ face.at = "return"

\* The amounts of all tranches together.
TrancheTotal ==
    SumOver([k \in DOMAIN tranches |-> bags[tranches[k].asset].amount], DOMAIN tranches)

SamePrice(p, q) ==
    \/ p.pair = q.pair /\ RateEQ(p.price, q.price)
    \/ p.pair = Pair_swap(q.pair) /\ p.price.n * q.price.n = p.price.d * q.price.d

\* A conclude on the emptied accounts, with one observed price.
ConcludedAt(p) ==
    /\ FreshConclude
    /\ last.err = "none"
    /\ pricelistcache = <<p>>

\* The stable account is accounts[0] of the code, the first account here.
StableCollateral == Holdings(accounts[1], face.openingbaseprice.pair.base)

StableValuation ==
    Account_valuation(Store, accounts[1], face.facevalue.symbol, pricelistcache)

(***************************************************************************)
(* C18: after reset and conclude of a contract built by Face(F, P0, U, T)  *)
(* at an observed price exactly equal to P0, the stable account holds      *)
(* principal / U of collateral and its holdings valued in the external     *)
(* unit equal F.                                                           *)
(***************************************************************************)
StableIsWorthFaceAtOpeningPrice ==
    (Faced /\ \E p \in CoinPrices : ConcludedAt(p) /\ SamePrice(p, face.openingbaseprice)) =>
        /\ StableValuation.err = "none"
        /\ StableValuation.symbol = face.facevalue.symbol
        /\ RateEQ(StableValuation.amount, face.facevalue.amount)
        /\ StableCollateral * face.upside.n = face.principle.amount.n * face.upside.d

StableIsWorthFaceAtOpeningPrice_witness ==
    /\ Faced
    /\ \E p \in CoinPrices : ConcludedAt(p) /\ SamePrice(p, face.openingbaseprice)
    /\ pricelistcache[1].pair = Pair_swap(face.openingbaseprice.pair)
    /\ face.n_upside = 2
    /\ StableCollateral = 32
    /\ StableValuation.amount = Rate(16, 1)

\* The rate of a price in the orientation of the opening price.
Based(p) == IF p.pair = face.openingbaseprice.pair THEN p.price ELSE RateInv(p.price)

\* The price lies in [P0 / U, P0 * U].
InRange(p) ==
    /\ RateGE(RateMul(Based(p), face.upside), face.openingbaseprice.price)
    /\ RateGE(RateMul(face.openingbaseprice.price, face.upside), Based(p))

\* The conditional tranches whose threshold is above low and not above high.
Crossed(low, high) ==
    {k \in 1..(Len(tranches) - 1) :
        /\ RateGT(tranches[k].ohash.threshprice.price, low)
        /\ RateGE(high, tranches[k].ohash.threshprice.price)}

\* What the stable account would hold after reset and conclude at price q.
CollateralAt(q) ==
    LET r == Contract_conclude(Contract_reset(Store, Self), Self, <<q>>)
    IN  HoldingsIn(r.h.bag, r.h.acc, accounts[1], face.openingbaseprice.pair.base)

(***************************************************************************)
(* C19: for a contract built by Face(F, P0, U, T) and every observed price *)
(* in [P0 / U, P0 * U]: the tranches whose threshold the price has reached *)
(* are with the variable account, the others and the final one with the    *)
(* stable account, so the stable account's collateral does not increase    *)
(* with the observed price; its valuation in the external unit is within a *)
(* factor T of F; and crossing one threshold lowers its collateral, and    *)
(* with it its valuation at that price, by no more than the factor T.      *)
(***************************************************************************)
StableStaysWithinTolerance ==
    \A p \in CoinPrices :
        (Faced /\ ConcludedAt(p) /\ InRange(p)) =>
            /\ StableCollateral =
                   TrancheTotal
                   - SumOver([k \in DOMAIN tranches |-> bags[tranches[k].asset].amount],
                             Crossed(Rate(0, 1), Based(p)))
            /\ Holdings(accounts[2], face.openingbaseprice.pair.base) =
                   SumOver([k \in DOMAIN tranches |-> bags[tranches[k].asset].amount],
                           Crossed(Rate(0, 1), Based(p)))
            /\ StableValuation.err = "none"
            /\ RateGE(RateMul(StableValuation.amount, face.tolerance), face.facevalue.amount)
            /\ RateGE(RateMul(face.facevalue.amount, face.tolerance), StableValuation.amount)
            /\ \A q \in CoinPrices :
                  (InRange(q) /\ RateGE(Based(q), Based(p))) =>
                      /\ CollateralAt(q) <= StableCollateral
                      /\ Cardinality(Crossed(Based(p), Based(q))) = 1 =>
                             /\ CollateralAt(q) < StableCollateral
                             /\ StableCollateral * face.tolerance.d
                                    <= CollateralAt(q) * face.tolerance.n

StableStaysWithinTolerance_witness ==
    /\ Faced
    /\ face.n_upside = 2
    /\ \E p, q \in CoinPrices :
          /\ ConcludedAt(p) /\ InRange(p) /\ InRange(q)
          /\ Cardinality(Crossed(Rate(0, 1), Based(p))) = 1
          /\ Cardinality(Crossed(Based(p), Based(q))) = 1
          /\ CollateralAt(q) < StableCollateral
          /\ StableCollateral < TrancheTotal
          /\ ~RateEQ(StableValuation.amount, face.facevalue.amount)

(***************************************************************************)
(* OptionSwap.py                                                           *)
(***************************************************************************)
\* Both tranches with the accounts of the first.
LongCall_sameAccounts(underlying, strikeprice, premium) ==
    LET escrow == AssetBag_valuation(underlying, strikeprice.pair.quote, <<strikeprice>>)
    IN  IF escrow.err # "none" THEN Raised(escrow.err)
        ELSE [err |-> "none",
              facevalue |-> AssetBag(RateTimes(premium, escrow.amount), escrow.symbol),
              specs |-> <<[ohash |-> GE(strikeprice), asset |-> underlying,
                           route |-> <<2, 1>>],
                          [ohash |-> GE(strikeprice),
                           asset |-> AssetBag(escrow.amount, escrow.symbol),
                           route |-> <<2, 1>>]>>,
              strikeprice |-> strikeprice]

\* LongCall.__init__: addTranche(ohash, asset, tindex, hindex) with (1, 0) for
\* the underlying and (0, 1) for the escrow; route is <<taccount, haccount>>.
LongCall(underlying, strikeprice, premium) ==
    LET escrow == AssetBag_valuation(underlying, strikeprice.pair.quote, <<strikeprice>>)
    IN  IF escrow.err # "none" THEN Raised(escrow.err)
        ELSE [err |-> "none",
              facevalue |-> AssetBag(RateTimes(premium, escrow.amount), escrow.symbol),
              specs |-> <<[ohash |-> GE(strikeprice), asset |-> underlying,
                           route |-> <<2, 1>>],
                          [ohash |-> GE(strikeprice),
                           asset |-> AssetBag(escrow.amount, escrow.symbol),
                           route |-> <<1, 2>>]>>,
              strikeprice |-> strikeprice]

\* Underlying assets and strike prices for which the escrow is a whole
\* number of units.
CallArguments ==
    {a \in [underlying : {AssetBag(Rate(2, 1), "BTS"), AssetBag(Rate(4, 1), "BTS")},
            strikeprice : {Price(Rate(1, 2), BTSUSD), Price(Rate(1, 1), BTSUSD),
                           Price(Rate(2, 1), BTSUSD)}] :
        LET made == LongCall(a.underlying, a.strikeprice, Rate(11, 10))
        IN  /\ made.err = "none"
            /\ \A k \in DOMAIN made.specs : made.specs[k].asset.amount.d = 1}

\* Observed prices below, on and above every strike, in both orientations.
CallPrices ==
    {Price(Rate(n, 1), BTSUSD) : n \in 1..3}
    \cup {Price(Rate(1, d), BTSUSD) : d \in 2..4}
    \cup {Price(Rate(n, 1), USDBTS) : n \in 1..3}

InitCall ==
    /\ \E a \in CallArguments :
          BuiltContract(InUnits(LongCall(a.underlying, a.strikeprice, Rate(11, 10)).specs))
    /\ \E p \in CallPrices : knownprices = <<p>>
    /\ GhostIdle
    /\ received = NoReceived
    /\ PriceIdle
    /\ LadderIdle

SpecCall == InitCall /\ [][NextSettle]_vars

\* The observed price has reached the strike of the contract's first tranche.
AtOrAboveStrike(p) ==
    LET strike == tranches[1].ohash.threshprice
    IN  IF p.pair = strike.pair THEN RateGE(p.price, strike.price)
        ELSE RateGE(RateInv(p.price), strike.price)

\* Account a holds the whole of bag b and nothing of the symbol of bag c.
HoldsOnly(a, b, c) ==
    /\ Holdings(a, bags[b].symbol) = bags[b].amount
    /\ Holdings(a, bags[c].symbol) = 0

(***************************************************************************)
(* C21: after reset and conclude of a LongCall contract at any observed    *)
(* price of its pair, one account holds exactly the underlying and the     *)
(* other exactly the escrow, never both: at a price at or above the strike *)
(* (equality included) the first account (long call) holds the underlying  *)
(* and the second (short call) the escrow, below the strike the other way  *)
(* round; so the total of each asset over both accounts is the same on     *)
(* both sides of the strike.                                               *)
(***************************************************************************)
CallSwapsAtStrike ==
    \A p \in CallPrices :
        ConcludedAt(p) =>
            LET underlying == tranches[1].asset
                escrow == tranches[2].asset
            IN  /\ bags[underlying].symbol # bags[escrow].symbol
                /\ IF AtOrAboveStrike(p)
                     THEN /\ HoldsOnly(accounts[1], underlying, escrow)
                          /\ HoldsOnly(accounts[2], escrow, underlying)
                     ELSE /\ HoldsOnly(accounts[1], escrow, underlying)
                          /\ HoldsOnly(accounts[2], underlying, escrow)
                /\ \A b \in {underlying, escrow} :
                      Holdings(accounts[1], bags[b].symbol)
                        + Holdings(accounts[2], bags[b].symbol) = bags[b].amount

CallSwapsAtStrike_witness ==
    /\ FaceIdle
    /\ Len(tranches) = 2
    /\ \E p \in CallPrices :
          /\ ConcludedAt(p)
          /\ p.pair = Pair_swap(tranches[1].ohash.threshprice.pair)
          /\ p.price.n * tranches[1].ohash.threshprice.price.n
               = p.price.d * tranches[1].ohash.threshprice.price.d
    /\ HoldsOnly(accounts[1], tranches[1].asset, tranches[2].asset)
    /\ Holdings(accounts[2], "USD") = 2

(***************************************************************************)
(* C22: building a table with zero steps or with a factor that is not      *)
(* positive fails with the configuration error, HashTable.ConfigError, and *)
(* yields no prices and no hashes.                                         *)
(*                                                                         *)
(* The code raises ConfigError for a missing option only.  With no steps,  *)
(* or a factor of zero, a division raises ZeroDivisionError; a negative    *)
(* factor raises TypeError with two or more steps, and with one step the   *)
(* table is built, with prices of alternating sign.                        *)
(***************************************************************************)
BadParametersAreRejected ==
    (/\ reply.op = "HashTable"
     /\ reply.secret.type = "str"
     /\ cfg.section.steps = 0 \/ cfg.section.factor.n <= 0)
    => /\ reply.result.err = "ConfigError"
       /\ HT[reply.k].err = "None"

(***************************************************************************)
(* PriceIterators.py                                                       *)
(*                                                                         *)
(* The multipliers of a _LogSpacer are powers of one step multiplier,      *)
(* stepmult = factor ** (1 / steps), most of them irrational.  A           *)
(* multiplier is kept as [exp, drift]: the real number stepmult ^ exp, and *)
(* how far the float the code holds is from it.  The factor itself is      *)
(* stepmult ^ steps with no drift; what pow returns has the drift the      *)
(* object's rounding gives it; a product has the exponents added and the   *)
(* larger drift of the two.                                                *)
(***************************************************************************)
Level(exp, drift) == [exp |-> exp, drift |-> drift]

Larger(a, b) == IF a >= b THEN a ELSE b

\* a * b
Times(a, b) == Level(RateAdd(a.exp, b.exp), Larger(a.drift, b.drift))

\* 2 ** int(math.log(idx, 2)), for idx >= 1
RECURSIVE msbidx(_)
msbidx(idx) == IF idx < 2 THEN 1 ELSE 2 * msbidx(idx \div 2)

\* A pair whose numerator is the one of the lower index, not scaled.
RECURSIVE staggerRatioPair_unscaled(_)
staggerRatioPair_unscaled(idx) ==
    IF idx = 0 THEN [n |-> Rate(0, 1), d |-> 1]
    ELSE LET d == msbidx(idx) * 2
             p0 == staggerRatioPair_unscaled(idx - msbidx(idx))
         IN  [n |-> RateAdd(Rate(1, 1), p0.n), d |-> d]

\* _LogSpacer.staggerRatioPair: n = 1 + n0 * d / d0 is a float
RECURSIVE staggerRatioPair(_)
staggerRatioPair(idx) ==
    IF idx = 0 THEN [n |-> Rate(0, 1), d |-> 1]
    ELSE LET d == msbidx(idx) * 2
             p0 == staggerRatioPair(idx - msbidx(idx))
         IN  [n |-> RateAdd(Rate(1, 1), RateNorm(Rate(p0.n.n * d, p0.n.d * p0.d))),
              d |-> d]

\* _LogSpacer(decadefactor, steps, stagger), with the rounding of its floats:
\* rounding.pow[i] for stepmult ** i, rounding.stagger for stepFactor ** (n/d)
LogSpacer(decadefactor, steps, stagger, rounding) ==
    [decadefactor |-> decadefactor, steps |-> steps, stagger |-> stagger,
     rounding |-> rounding]

\* The multipliers as computed, the last one not replaced by the factor.
LogSpacer_getDecadeSteps_unsnapped(self) ==
    LET result == [i \in 1..self.steps |-> Level(Rate(i, 1), self.rounding.pow[i])]
    IN  [err |-> "none", result |-> result,
         warning |-> result[self.steps].drift > 1]

\* _LogSpacer.getDecadeSteps: the warning is printed, result[-1] = factor
LogSpacer_getDecadeSteps(self) ==
    LET result == [i \in 1..self.steps |-> Level(Rate(i, 1), self.rounding.pow[i])]
    IN  [err |-> "none",
         result |-> [result EXCEPT ![self.steps] = Level(Rate(self.steps, 1), 0)],
         warning |-> result[self.steps].drift > 1]

\* self._levels.extend([self._levels[-1] * ds for ds in decadeSteps]), k times
RECURSIVE Extend(_, _, _)
Extend(levels, decadeSteps, k) ==
    IF k = 0 THEN levels
    ELSE Extend(levels \o [i \in DOMAIN decadeSteps |->
                              Times(levels[Len(levels)], decadeSteps[i])],
                decadeSteps, k - 1)

\* Levels that all start at 1.0, whatever the stagger.
LogSpacer_getLevels_unstaggered(self, numDecades) ==
    Extend(<<Level(Rate(0, 1), 0)>>, LogSpacer_getDecadeSteps(self).result, numDecades)

\* _LogSpacer.getLevels: stepFactor ** 0.0 is 1.0 without rounding
LogSpacer_getLevels(self, numDecades) ==
    LET decadeSteps == LogSpacer_getDecadeSteps(self).result
        stepFactor == decadeSteps[1]
        pair == staggerRatioPair(self.stagger)
        staggerFactor ==
            IF pair.n.n = 0 THEN Level(Rate(0, 1), 0)
            ELSE Level(RateTimes(stepFactor.exp, RateNorm(Rate(pair.n.n, pair.n.d * pair.d))),
                       Larger(stepFactor.drift, self.rounding.stagger))
    IN  Extend(<<staggerFactor>>, decadeSteps, numDecades)

\* LogPrices(startprice, factor, decades, steps, plane, flip)
LogPrices(startprice, factor, decades, steps, plane, flip, rounding) ==
    [err |-> "none", startprice |-> startprice, factor |-> factor, decades |-> decades,
     steps |-> steps, plane |-> plane, flip |-> flip, rounding |-> rounding]

\* LogPrices.getPrices: each price is startprice * multiplier, kept as the
\* multiplier; the start price is the same for all of them.
LogPrices_getPrices(self) ==
    LET stagger_m == msbidx(self.plane)
        stagger_n == self.plane - stagger_m
        multiples == LogSpacer_getLevels(
                         LogSpacer(self.factor, self.steps, stagger_n, self.rounding),
                         self.decades)
    IN  IF self.flip THEN Reversed(multiples) ELSE multiples

\* LogPrices.__str__: "(t|b)<startprice>:f<FACTOR>:s<STEPS>[:p<PLANE>(u|d)]"
LogPrices_str(self) ==
    LET descending == RateGT(Rate(1, 1), self.factor) # self.flip
        tailprice == RateTimes(self.startprice, RatePow(self.factor, self.decades))
        headerprice == IF ~self.flip THEN self.startprice ELSE tailprice
        normfactor == IF RateGT(self.factor, Rate(1, 1)) THEN self.factor
                      ELSE RateInv(self.factor)
    IN  <<IF descending THEN "t" ELSE "b">> \o FormatG(headerprice)
        \o <<":", "f">> \o FormatG(normfactor)
        \o <<":", "s", ToString(self.steps)>>
        \o (IF self.plane = 1 THEN << >>
            ELSE <<":", "p", ToString(self.plane),
                   IF RateGT(self.factor, Rate(1, 1)) THEN "u" ELSE "d">>)

(***************************************************************************)
(* Calls on a LogPrices object and on _LogSpacer.                          *)
(***************************************************************************)
Drifts == 0..MaxDrift

Roundings(steps) == [pow : [1..steps -> Drifts], stagger : Drifts]

\* The objects: a factor above and one below 1, any rounding of the floats.
LogPricesObjects ==
    UNION {{LogPrices(Rate(2, 1), factor, decades, steps, plane, flip, rounding) :
              factor \in {Rate(2, 1), Rate(1, 2)}, decades \in 0..MaxDecades,
              plane \in 1..MaxPlane, flip \in BOOLEAN, rounding \in Roundings(steps)} :
           steps \in 1..MaxSteps}

Asked(op, idx, result, warning) ==
    [err |-> "none", op |-> op, idx |-> idx, result |-> result, warning |-> warning]

SpacerOthersIdle ==
    /\ BuiltContract(<< >>)
    /\ knownprices = << >>
    /\ GhostIdle
    /\ received = NoReceived
    /\ PriceIdle
    /\ TableIdle
    /\ MerkleIdle
    /\ FaceIdle

SpacerFrame ==
    UNCHANGED <<bags, accts, contractVars, knownprices, last, nCalls, uniform,
                studyValid, received, priceVars, tableVars, leaves, merkle, face, LP>>

InitPrices ==
    /\ SpacerOthersIdle
    /\ LP \in LogPricesObjects
    /\ asked = Asked("none", 0, << >>, FALSE)

CallGetPrices ==
    /\ asked' = Asked("getPrices", 0, LogPrices_getPrices(LP), FALSE)
    /\ SpacerFrame

CallStr ==
    /\ asked' = Asked("str", 0, LogPrices_str(LP), FALSE)
    /\ SpacerFrame

CallGetDecadeSteps ==
    /\ \E r \in {LogSpacer_getDecadeSteps(
                     LogSpacer(LP.factor, LP.steps, LP.plane - msbidx(LP.plane),
                               LP.rounding))} :
          asked' = Asked("getDecadeSteps", 0, r.result, r.warning)
    /\ SpacerFrame

NextPrices == CallGetPrices \/ CallStr \/ CallGetDecadeSteps

SpecPrices == InitPrices /\ [][NextPrices]_vars

\* staggerRatioPair alone: the index is chosen, then the function is called.
InitStagger ==
    /\ SpacerOthersIdle
    /\ LP = [err |-> "None"]
    /\ \E idx \in 0..MaxIdx : asked = Asked("none", idx, << >>, FALSE)

CallStaggerRatioPair ==
    /\ asked.op = "none"
    /\ asked' = Asked("staggerRatioPair", asked.idx, <<staggerRatioPair(asked.idx)>>, FALSE)
    /\ SpacerFrame

NextStagger == CallStaggerRatioPair

SpecStagger == InitStagger /\ [][NextStagger]_vars

\* The offset n / d of an index, in lowest terms.
OffsetOf(pair) == RateNorm(Rate(pair.n.n, pair.n.d * pair.d))

Offset(idx) == OffsetOf(staggerRatioPair(idx))

RECURSIVE IsPowerOfTwo(_)
IsPowerOfTwo(x) == x = 1 \/ (x > 1 /\ x % 2 = 0 /\ IsPowerOfTwo(x \div 2))

\* The power of two m with m <= idx < 2 m, for idx >= 1.
RangeOf(idx) == CHOOSE m \in 1..idx : IsPowerOfTwo(m) /\ m <= idx /\ idx < 2 * m

BitReversalOrder ==
    <<Rate(0, 1), Rate(1, 2), Rate(1, 4), Rate(3, 4),
      Rate(1, 8), Rate(5, 8), Rate(3, 8), Rate(7, 8)>>

StaggerAsked == asked.err = "none" /\ asked.op = "staggerRatioPair"

OnPlane(q) == [LP EXCEPT !.plane = q]

\* The multipliers of a plane in ascending order of the table, and the
\* offset of its first one as a fraction of one step.
UnflippedPrices(q) == LogPrices_getPrices([LP EXCEPT !.plane = q, !.flip = FALSE])

StartOffset(q) == UnflippedPrices(q)[1].exp

\* The m of the set the plane is a table of: the power of two with
\* m <= plane < 2 m.
SetOf(plane) == CHOOSE m \in 1..plane : IsPowerOfTwo(m) /\ m <= plane /\ plane < 2 * m

Thresholds(q) == {UnflippedPrices(q)[i].exp : i \in DOMAIN UnflippedPrices(q)}

PricesAsked == asked.err = "none" /\ asked.op = "getPrices"

StepsAsked == asked.err = "none" /\ asked.op = "getDecadeSteps"

\* The float is the real number, without rounding.
Exactly(level, exp) == level.exp = exp /\ level.drift = 0

(***************************************************************************)
(* C25: getDecadeSteps returns exactly `steps' multipliers, the last of    *)
(* them exactly the factor whatever pow returned for it, so the multiplier *)
(* at every decade boundary, index k * steps, is the first one multiplied  *)
(* k times by exactly the factor and carries no rounding of a power; a     *)
(* residual above 1e-12 gives a warning and the list is returned all the   *)
(* same.                                                                   *)
(***************************************************************************)
LastStepIsTheFactor ==
    /\ StepsAsked =>
          /\ Len(asked.result) = LP.steps
          /\ Exactly(asked.result[LP.steps], Rate(LP.steps, 1))
          /\ \A i \in 1..(LP.steps - 1) :
                asked.result[i] = Level(Rate(i, 1), LP.rounding.pow[i])
          /\ asked.warning = (LP.rounding.pow[LP.steps] > 1)
    /\ PricesAsked =>
          LET prices == IF LP.flip THEN Reversed(asked.result) ELSE asked.result
          IN  \A k \in 0..LP.decades :
                 /\ prices[k * LP.steps + 1].exp =
                       RateAdd(prices[1].exp, Rate(k * LP.steps, 1))
                 /\ prices[k * LP.steps + 1].drift = prices[1].drift

LastStepIsTheFactor_witness ==
    /\ PricesAsked
    /\ LP.steps = 2
    /\ LP.decades = 2
    /\ LP.plane = 1
    /\ LP.rounding.pow[2] > 1
    /\ LP.rounding.pow[1] = 1
    /\ asked.result[5] = Level(Rate(4, 1), 0)
    /\ asked.result[4] = Level(Rate(3, 1), 1)

\* The call of Face has ended, and ended as it should.
FaceEndsRight ==
    IF face.at = "principle"
      THEN /\ face.err = "none"
           /\ RateGT(face.tolerance, Rate(1, 1))
           /\ LeastSteps(face.n_upside, face.tolerance, face.upside)
           /\ RateGE(face.tolerance, face.upside) => face.n_upside = 1
    ELSE IF face.at = "raised"
      THEN /\ face.err = "ValueError"
           /\ ~RateGT(face.tolerance, Rate(1, 1))
           /\ Face(AssetBag(Rate(4, 1), "USD"), Price(Rate(1, 1), BTSUSD),
                   face.upside, face.tolerance) = Raised("ValueError")
    ELSE FALSE

(***************************************************************************)
(* C26: for every upside U > 1 and tolerance T > 1 the search of Face      *)
(* ends, with the least whole n >= 1 for which U ^ (1/n) <= T, which is 1  *)
(* when U <= T; for T <= 1 Face raises an error and builds no contract.    *)
(* A call that has ended stays as it is, so that reaching a right end is   *)
(* ending, and ending right.                                               *)
(***************************************************************************)
FaceSearchEnds == <>FaceEndsRight

FaceSearchEnds_witness ==
    /\ face.at = "principle"
    /\ face.upside = Rate(3, 1)
    /\ face.tolerance = Rate(12, 10)
    /\ face.n_upside = 7

(***************************************************************************)
(* The thresholds of a contract built by Face.                             *)
(***************************************************************************)
\* The levels the constructor builds, as multiples of the opening price.
Levels == GetGeometricSeries(face.growthtol, face.n_upside, face.n_upside)

\* Tranche k is revealed by an observed price at or above a threshold.
Conditioned(k) == tranches[k].ohash.exceeds /\ ~tranches[k].ohash.strict

\* Tranche k waits for a price below zero.
Unconditioned(k) ==
    tranches[k].ohash = LT(Price(Rate(0, 1), face.openingbaseprice.pair))

\* The threshold of tranche k, as a multiple of the opening price.
Threshold(k) ==
    RateTimes(tranches[k].ohash.threshprice.price, RateInv(face.openingbaseprice.price))

(***************************************************************************)
(* C27, as stated: a BoundedStableCoin built with n steps on each side of  *)
(* P0 uses 2n levels from P0 / U to P0 * U and the 2n - 1 midpoints of     *)
(* consecutive levels, so that it has 2n - 1 price-conditioned tranches    *)
(* and one unconditioned tranche.                                          *)
(***************************************************************************)
CoinHasTwoNLevels ==
    Faced =>
        /\ Len(Levels) = 2 * face.n_upside
        /\ Levels[1] = RateInv(face.upside)
        /\ Levels[Len(Levels)] = face.upside
        /\ Cardinality({k \in DOMAIN tranches : Conditioned(k)}) = 2 * face.n_upside - 1
        /\ Cardinality({k \in DOMAIN tranches : Unconditioned(k)}) = 1

(***************************************************************************)
(* C27, as the code has it: n steps below P0, P0 itself and n steps above  *)
(* it are 2n + 1 levels from P0 / U to P0 * U; the 2n geometric midpoints  *)
(* of consecutive levels, each strictly between its two levels, are the    *)
(* thresholds of 2n price-conditioned tranches, in this order, and one     *)
(* unconditioned tranche follows them.                                     *)
(***************************************************************************)
CoinHasTwoNPlusOneLevels ==
    Faced =>
        /\ Len(Levels) = 2 * face.n_upside + 1
        /\ Levels[1] = RateInv(face.upside)
        /\ Levels[face.n_upside + 1] = Rate(1, 1)
        /\ Levels[Len(Levels)] = face.upside
        /\ \A i \in 1..(Len(Levels) - 1) : Levels[i + 1] = RateTimes(face.growthtol, Levels[i])
        /\ Len(tranches) = 2 * face.n_upside + 1
        /\ \A k \in 1..(2 * face.n_upside) :
              /\ Conditioned(k)
              /\ ~Unconditioned(k)
              /\ tranches[k].ohash.threshprice.pair = face.openingbaseprice.pair
              /\ RateTimes(Threshold(k), Threshold(k)) = RateTimes(Levels[k], Levels[k + 1])
              /\ RateGT(Threshold(k), Levels[k])
              /\ RateGT(Levels[k + 1], Threshold(k))
        /\ Unconditioned(2 * face.n_upside + 1)
        /\ ~Conditioned(2 * face.n_upside + 1)

CoinHasTwoNPlusOneLevels_witness ==
    /\ Faced
    /\ face.upside = Rate(16, 1)
    /\ face.n_upside = 2
    /\ face.openingbaseprice = Price(Rate(1, 2), BTSUSD)
    /\ Len(tranches) = 5
    /\ tranches[4].ohash = GE(Price(Rate(4, 1), BTSUSD))
    /\ tranches[1].ohash = GE(Price(Rate(1, 16), BTSUSD))

(***************************************************************************)
(* The amounts of the tranches of a contract built by Face.                *)
(***************************************************************************)
\* The amount of tranche k, which settlement leaves as it was built.
Peeled(k) == Rate(bags[tranches[k].asset].amount, 1)

\* principal * (1 - 1/ratio) * (1/ratio) ^ (k - 1)
Share(ratio, k) ==
    RateTimes(face.principle.amount,
              RateTimes(RateSub(Rate(1, 1), RateInv(ratio)),
                        RateNorm(RatePow(RateInv(ratio), k - 1))))

(***************************************************************************)
(* C28, as stated: in a contract built by Face(F, P0, U, T) every peeled   *)
(* tranche is the fraction 1 - 1/T of what is left, T being the tolerance  *)
(* given to Face: the k-th peeled amount, counted from 0, is               *)
(* principal * (1 - 1/T) * (1/T) ^ k.                                      *)
(***************************************************************************)
PeeledByGivenTolerance ==
    Faced =>
        \A k \in 1..(2 * face.n_upside) : Peeled(k) = Share(face.tolerance, k)

(***************************************************************************)
(* C28, as the code has it: the fraction is 1 - 1/g, g being the step      *)
(* ratio U ^ (1/n) that Face has found and hands to the constructor; g is  *)
(* at most T, and is T only when T ^ n = U.  The k-th peeled amount,       *)
(* counted from 0, is principal * (1 - 1/g) * (1/g) ^ k, and what is left  *)
(* after all of them is principal * (1/g) ^ (2n).                          *)
(***************************************************************************)
PeeledByStepRatio ==
    Faced =>
        /\ RateNorm(RatePow(face.growthtol, face.n_upside)) = face.upside
        /\ RateGE(face.tolerance, face.growthtol)
        /\ \A k \in 1..(2 * face.n_upside) :
              /\ Peeled(k) = Share(face.growthtol, k)
              /\ Peeled(k) = face.specs[k].asset.amount
        /\ Peeled(2 * face.n_upside + 1)
             = RateTimes(face.principle.amount,
                         RateNorm(RatePow(RateInv(face.growthtol), 2 * face.n_upside)))

PeeledByStepRatio_witness ==
    /\ Faced
    /\ face.tolerance = Rate(5, 1)
    /\ face.growthtol = Rate(4, 1)
    /\ face.upside = Rate(16, 1)
    /\ face.principle.amount = Rate(256, 1)
    /\ Peeled(1) = Rate(192, 1)
    /\ Peeled(4) = Rate(3, 1)
    /\ Peeled(5) = Rate(1, 1)

\* The tranches that wait for a price at or above a threshold.
PeeledTranches == 1..(2 * face.n_upside)

\* The first tranche is the largest, principal * cutratio; every later one is smaller.
PeeledAmountsFall ==
    /\ Peeled(1) = Share(face.growthtol, 1)
    /\ \A k \in PeeledTranches \ {1} : RateGT(Peeled(k - 1), Peeled(k))

\* The last tranche holds what is left and no observed price reveals it.
LeftoverIsKept ==
    /\ Len(tranches) = 2 * face.n_upside + 1
    /\ Unconditioned(Len(tranches))
    /\ RateAdd(Peeled(Len(tranches)), Rate(SumOver([k \in DOMAIN tranches |->
                 bags[tranches[k].asset].amount], PeeledTranches), 1)) = face.principle.amount
    /\ \A p \in CoinPrices : isRevealed(tranches[Len(tranches)].ohash, p) = "False"
    /\ \A p \in CoinPrices :
          ConcludedAt(p) => StableCollateral >= bags[tranches[Len(tranches)].asset].amount

(***************************************************************************)
(* C29, as stated: the thresholds are walked from the highest to the       *)
(* lowest while peeling, so that the first and largest amount,             *)
(* principal * cutratio, is keyed to the highest threshold and every       *)
(* later, smaller amount to the next lower one, each with the condition    *)
(* 'observed price >= threshold'; the leftover is in one unconditioned     *)
(* tranche that is never revealed.                                         *)
(***************************************************************************)
LargestSliceAtHighestThreshold ==
    Faced =>
        /\ PeeledAmountsFall
        /\ \A k \in PeeledTranches : Conditioned(k)
        /\ \A k \in PeeledTranches : RateGE(Threshold(1), Threshold(k))
        /\ \A k \in PeeledTranches \ {1} : RateGT(Threshold(k - 1), Threshold(k))
        /\ LeftoverIsKept

(***************************************************************************)
(* C29, as the code has it: the thresholds are walked from the lowest to   *)
(* the highest, so that the first and largest amount, principal *          *)
(* cutratio, is keyed to the lowest threshold and every later, smaller     *)
(* amount to the next higher one, each with the condition 'observed price  *)
(* >= threshold'; the leftover is in one last tranche whose condition,     *)
(* 'observed price < 0', no observed price meets.                          *)
(***************************************************************************)
LargestSliceAtLowestThreshold ==
    Faced =>
        /\ PeeledAmountsFall
        /\ \A k \in PeeledTranches : Conditioned(k)
        /\ \A k \in PeeledTranches : RateGE(Threshold(k), Threshold(1))
        /\ \A k \in PeeledTranches \ {1} : RateGT(Threshold(k), Threshold(k - 1))
        /\ LeftoverIsKept

LargestSliceAtLowestThreshold_witness ==
    /\ Faced
    /\ face.n_upside = 2
    /\ face.principle.amount = Rate(256, 1)
    /\ Peeled(1) = Rate(192, 1)
    /\ tranches[1].ohash = GE(Price(Rate(1, 8), BTSUSD))
    /\ tranches[4].ohash = GE(Price(Rate(8, 1), BTSUSD))
    /\ ConcludedAt(Price(Rate(1, 4), BTSUSD))
    /\ Holdings(accounts[2], "BTS") = 192
    /\ StableCollateral = 64

\* One pairing level: each adjacent pair replaced by H(a || b), an odd last
\* element kept.
RECURSIVE PairedOnce(_)
PairedOnce(L) ==
    IF Len(L) < 2 THEN L
    ELSE <<HashOfPair(L[1], L[2])>> \o PairedOnce(SubSeq(L, 3, Len(L)))

MerkleAsked == merkle.err = "none"

(***************************************************************************)
(* C30: the Merkle root does not commit to the number of leaves: for every *)
(* list L of two hashes or more, SimpleMerkleRoot(L) is the root of the    *)
(* shorter list L' that one pairing level makes of L, so that [a, b, c]    *)
(* and [H(a || b), c] have the same root.                                  *)
(***************************************************************************)
MerkleRootForgetsLength ==
    (MerkleAsked /\ Len(leaves) >= 2) =>
        /\ Len(PairedOnce(leaves)) = (Len(leaves) + 1) \div 2
        /\ Len(PairedOnce(leaves)) < Len(leaves)
        /\ merkle.root = SimpleMerkleRoot(PairedOnce(leaves))
        /\ Len(leaves) = 3 =>
              merkle.root = SimpleMerkleRoot(<<HashOfPair(leaves[1], leaves[2]), leaves[3]>>)

MerkleRootForgetsLength_witness ==
    /\ MerkleAsked
    /\ leaves = <<BytesHash(<<"A">>), BytesHash(<<"B">>), BytesHash(<<"C">>)>>
    /\ PairedOnce(leaves) = <<HashOfPair(leaves[1], leaves[2]), leaves[3]>>
    /\ merkle.root = HashOfPair(HashOfPair(leaves[1], leaves[2]), leaves[3])

====
